---- MODULE Spec2Model ----
(***************************************************************************)
(* Model of the multi-admin batch coordination of BotCamp Medical          *)
(* (services/multi_admin_service.py): the upload_batches table, the lock   *)
(* protocol on it, the batch terminal transitions and their effect on the  *)
(* questions table; and of the upload pipeline around it: the parse of an  *)
(* uploaded text (services/ai_parser.py), the review of the parsed items   *)
(* (handlers/admin.py), the moderation of a question                       *)
(* (services/moderation.py), the contributor counters, the log tables and  *)
(* the provider fallback (deployment/fallback_adapter.py,                  *)
(* services/ai_service.py, services/async_jobs.py).                        *)
(*                                                                         *)
(* Time is the value of datetime.utcnow() in whole minutes.                *)
(***************************************************************************)
EXTENDS Integers, Sequences, FiniteSets, TLC

\* ---------------------------------------------------------------- bounds
\* batch ids in use; the most batches created when several batches interact
MaxBatches == 2
\* the most batches created under the minute clock
MaxTimedBatches == 1
MaxQuestions == 1
MaxTime == 16
NumAdmins == 2
\* runs of cleanup_expired_locks that can be in progress at once
NumSweepers == 2
\* the most questions _parse_text_questions finds in one text upload
MaxParsed == 1
\* the most lines of raw text handed to the naive parser
MaxLines == 5
\* the cursor of a review stops advancing here
MaxReviewIndex == 2
\* the most publish attempts counted for one uploader
MaxAttempts == 2
\* publish calls that can be in progress at once
NumWorkers == 2
\* the most rows written to system_logs
MaxLogs == 2
\* the most rows written to upload_audits
MaxAudits == 1

\* ------------------------------------------------------ program constants
\* self.lock_timeout_minutes = 15
lock_timeout_minutes == 15
\* the heuristic moderation: score = 75 goes with action accept
HeuristicAcceptScore == 75

\* SQL NULL / Python None in a nullable integer or datetime column
NULL == -1

Admins == 1..NumAdmins
BatchIds == 1..MaxBatches
\* the clock advances by one minute or by a whole lock timeout
TickSteps == {1, lock_timeout_minutes}
\* the coarse clock jumps past a whole lock timeout
CoarseTickSteps == {lock_timeout_minutes + 1}

VARIABLES
    now,             \* datetime.utcnow(), in minutes
    users,           \* users table: user_id -> [username, first_name]
    upload_batches,  \* upload_batches table: sequence of rows, batch_id = index
    questions,       \* questions table: sequence of rows, question_id = index
    last,            \* the last call made and what it returned to its caller
    displaced,       \* history: batch_id -> the admin whose lock the current holder took over
    sess,            \* per admin: the open session of a call in progress
    sweep,           \* per run of cleanup_expired_locks: its open session
    upload_items,    \* upload_items table: sequence of rows, id = index
    user_data,       \* per admin: context.user_data of the upload and review flow
    user_stats,      \* users table: user_id -> the contributor counter columns
    pub,             \* per worker: the open session of a publish call in progress
    recorded,        \* history: user_id -> accepted publishes committed and their scores
    system_logs,     \* system_logs table: sequence of rows, id = index
    upload_audits,   \* upload_audits table: sequence of rows, audit_id = index
    gw,              \* per caller: the provider call in progress and what it has done
    ai_events        \* event_logs rows of the provider telemetry (event_type
                     \* ai_call or ai_error), in the order of their ids

\* the contributor counters, the publish sessions and their history
statVars == <<user_stats, pub, recorded>>

\* the log tables and the provider calls
auditVars == <<system_logs, upload_audits, gw, ai_events>>

\* what the operations of MultiAdminService on a single batch leave alone
flowVars == <<sweep, upload_items, user_data, statVars, auditVars>>

vars == <<now, users, upload_batches, questions, last, displaced, sess, flowVars>>

\* ------------------------------------------------------------------ names
\* display names are (kind, user_id) pairs so that a name identifies its user
NoName == <<"None", 0>>
UnknownName == <<"Unknown", 0>>
UsernameOf(a) == <<"username", a>>
FirstNameOf(a) == <<"first_name", a>>
NamesOf(a) == {UsernameOf(a), FirstNameOf(a)}

\* locker.username or locker.first_name if locker else "Unknown"
LockerName(uid) ==
    IF uid \in DOMAIN users
    THEN IF users[uid].username # NoName THEN users[uid].username
         ELSE users[uid].first_name
    ELSE UnknownName

\* ------------------------------------------------------------------- rows
\* UploadBatch(uploader_id=..., questions_count=..., status="draft")
NewBatch(uploader_id, questions_count, t) ==
    [uploader_id |-> uploader_id, questions_count |-> questions_count,
     status |-> "draft", locked_by |-> NULL, locked_at |-> NULL,
     created_at |-> t, completed_at |-> NULL]

\* the row a session holds before it has loaded anything
NoView == NewBatch(NULL, 0, NULL)

Exists(b) == b \in DOMAIN upload_batches

\* session.commit() of a loaded row: the UPDATE carries the columns whose value
\* differs from the value the session loaded, every other column keeps what
\* the table holds
FlushCol(db, view, target, col) ==
    IF target[col] # view[col] THEN target[col] ELSE db[col]

Flush(db, view, target) ==
    [uploader_id |-> db.uploader_id,
     questions_count |-> db.questions_count,
     status |-> FlushCol(db, view, target, "status"),
     locked_by |-> FlushCol(db, view, target, "locked_by"),
     locked_at |-> FlushCol(db, view, target, "locked_at"),
     created_at |-> db.created_at,
     completed_at |-> FlushCol(db, view, target, "completed_at")]

\* ------------------------------------------------- lock_batch_for_review
\* slip: the timeout is compared in minutes against elapsed seconds
LockFresh_MinutesAsSeconds(row, t) ==
    row.locked_at # NULL /\ (t - row.locked_at) * 60 < lock_timeout_minutes

\* slip: a lock exactly one timeout old still counts as held
LockFresh_Inclusive(row, t) ==
    row.locked_at # NULL /\ (t - row.locked_at) * 60 <= lock_timeout_minutes * 60

\* (datetime.utcnow() - batch.locked_at).total_seconds() < lock_timeout_minutes * 60
LockFresh(row, t) ==
    row.locked_at # NULL /\ (t - row.locked_at) * 60 < lock_timeout_minutes * 60

\* slip: the holder's own lock refuses the holder too
LockRefused_OwnLock(row, admin_id, t) ==
    /\ row.locked_by # NULL /\ row.locked_by # 0
    /\ row.locked_at # NULL /\ (t - row.locked_at) * 60 < lock_timeout_minutes * 60

\* if batch.locked_by and batch.locked_by != admin_id: if batch.locked_at and ...
LockRefused(row, admin_id, t) ==
    /\ row.locked_by # NULL /\ row.locked_by # 0
    /\ row.locked_by # admin_id
    /\ LockFresh(row, t)

\* batch.locked_by = admin_id; batch.locked_at = utcnow(); batch.status = "review"
LockAssign(row, admin_id, t) ==
    [row EXCEPT !.locked_by = admin_id, !.locked_at = t, !.status = "review"]

\* ----------------------------------------- get_available_batches_for_admin
\* (locked_by IS NULL) | (locked_by == admin_id) | (locked_at < cutoff_time),
\* cutoff_time = utcnow() - lock_timeout_minutes; status in (draft, review)
AvailableFilter(row, admin_id, t) ==
    /\ \/ row.locked_by = NULL
       \/ row.locked_by = admin_id
       \/ row.locked_at # NULL /\ row.locked_at < t - lock_timeout_minutes
    /\ row.status \in {"draft", "review"}

\* ------------------------------------------------------------ unlock_batch
\* slip: any admin may release a lock that is set
IsLockHolder_AnyLock(row, admin_id) == row.locked_by # NULL

\* if batch and batch.locked_by == admin_id
IsLockHolder(row, admin_id) == row.locked_by = admin_id

UnlockAssign(row) ==
    [row EXCEPT !.locked_by = NULL, !.locked_at = NULL, !.status = "draft"]

\* ------------------------------------------- approve_batch / reject_batch
\* slip: only an unlocked batch is refused
NotLockHolder_OnlyUnlocked(row, admin_id) == row.locked_by = NULL

\* slip: the check is skipped when no lock is set
NotLockHolder_Truthy(row, admin_id) ==
    row.locked_by # NULL /\ row.locked_by # admin_id

\* if batch.locked_by != admin_id: return failure
NotLockHolder(row, admin_id) == row.locked_by # admin_id

\* slip: the lock fields are not cleared
TerminalAssign_KeepLock(row, status, t) ==
    [row EXCEPT !.status = status, !.completed_at = t]

TerminalAssign(row, status, t) ==
    [row EXCEPT !.status = status, !.completed_at = t,
                !.locked_by = NULL, !.locked_at = NULL]

\* Question.uploader_id == batch.uploader_id, Question.created_at >= batch.created_at
BatchQuestionFilter(q, row) ==
    q.uploader_id = row.uploader_id /\ q.created_at >= row.created_at

BatchQuestions(row) ==
    {i \in DOMAIN questions : BatchQuestionFilter(questions[i], row)}

\* for question in questions: question.is_active = ...; question.needs_review = False
SetQuestions(row, active) ==
    [i \in DOMAIN questions |->
        IF i \in BatchQuestions(row)
        THEN [questions[i] EXCEPT !.is_active = active, !.needs_review = FALSE]
        ELSE questions[i]]

\* -------------------------------------------------- cleanup_expired_locks
\* UploadBatch.locked_at < cutoff_time, UploadBatch.status == "review"
SweepFilter(row, t) ==
    /\ row.locked_at # NULL
    /\ row.locked_at < t - lock_timeout_minutes
    /\ row.status = "review"

\* ------------------------------------------------------------- candidates
\* Python None where a text is expected
None == "<None>"

\* the texts in use, each with its str.lower() and its str.upper()
CaseTable ==
    {<<"A", "a", "A">>, <<"B", "b", "B">>, <<"C", "c", "C">>, <<"D", "d", "D">>,
     <<"E", "e", "E">>, <<"b", "b", "B">>,
     <<"Iron", "iron", "IRON">>, <<"IRON", "iron", "IRON">>,
     <<"Zinc", "zinc", "ZINC">>, <<"Lead", "lead", "LEAD">>,
     <<"Gold", "gold", "GOLD">>, <<"Tin", "tin", "TIN">>,
     <<" B ", " b ", " B ">>, <<"Q?", "q?", "Q?">>}

Lower(s) ==
    IF \E p \in CaseTable : p[1] = s
    THEN (CHOOSE p \in CaseTable : p[1] = s)[2] ELSE s

Upper(s) ==
    IF \E p \in CaseTable : p[1] = s
    THEN (CHOOSE p \in CaseTable : p[1] = s)[3] ELSE s

\* str.strip(): the one padded text in use
Strip(s) == IF s = " B " THEN "B" ELSE s

\* {question, options[...], correct_answer} as the extractor returns it
Candidate(question, options, correct_answer) ==
    [question |-> question, options |-> options, correct_answer |-> correct_answer]

FourOptions == <<"Iron", "Zinc", "Lead", "Gold">>

\* what a provider reply or a reviewer's JSON can hold as one question
Candidates ==
    {Candidate("Q?", FourOptions, "B"),
     Candidate("Q?", FourOptions, "IRON"),
     Candidate("Q?", FourOptions, None),
     Candidate("Q?", FourOptions, "Tin"),
     Candidate("Q?", FourOptions, "E"),
     Candidate("Q?", <<"Iron", "Zinc", "Lead">>, "A"),
     Candidate("", FourOptions, "A"),
     Candidate("Q?", <<"Iron", "", "Lead", "Gold">>, "A")}

\* the letters an answer resolves to: the letter itself, or the letters of the
\* options it matches exactly without regard to case
AnswerLetters == <<"A", "B", "C", "D">>

ResolvedLetters(c) ==
    IF c.correct_answer = None THEN {}
    ELSE {AnswerLetters[i] : i \in {j \in 1..4 :
             \/ Upper(Strip(c.correct_answer)) = AnswerLetters[j]
             \/ /\ j \in DOMAIN c.options
                /\ Lower(Strip(c.options[j])) = Lower(Strip(c.correct_answer))}}

\* a candidate is valid: non-empty question text, exactly four non-empty
\* options and an answer that resolves to one of A-D
Valid(c) ==
    /\ c.question \notin {None, ""}
    /\ Len(c.options) = 4
    /\ \A i \in DOMAIN c.options : c.options[i] \notin {None, ""}
    /\ ResolvedLetters(c) # {}

\* _map_correct_option(correct, options)
Letters == <<"A", "B", "C", "D", "E">>

\* no answer gives "A"; a letter of Letters gives itself; otherwise the letter
\* of the first option equal to the answer without regard to case, and "A"
\* when there is none or an option is None
MapCorrectOption(correct, options) ==
    IF correct \in {None, ""} THEN "A"
    ELSE IF \E i \in DOMAIN Letters : Letters[i] = Upper(Strip(correct))
         THEN Upper(Strip(correct))
         ELSE IF \E i \in DOMAIN options : options[i] = None THEN "A"
              ELSE LET hits == {i \in DOMAIN options :
                                   Lower(Strip(options[i])) = Lower(Strip(correct))}
                   IN IF hits = {} \/ (\A i \in hits : i > Len(Letters)) THEN "A"
                      ELSE Letters[CHOOSE i \in hits : \A j \in hits : i <= j]

\* the naive parser of parse_mcqs_with_ai over the stripped non-empty lines:
\* the first line that ends with "?" is the question, the other lines are
\* options while fewer than four are held
EndsWithQuestionMark(l) == l = "Q?"

RECURSIVE NaiveScan(_, _, _)
NaiveScan(lines, q, opts) ==
    IF lines = <<>> THEN [q |-> q, opts |-> opts]
    ELSE LET l == Head(lines) IN
         IF q = "" /\ EndsWithQuestionMark(l) THEN NaiveScan(Tail(lines), l, opts)
         ELSE IF Len(opts) < 4 THEN NaiveScan(Tail(lines), q, Append(opts, l))
         ELSE NaiveScan(Tail(lines), q, opts)

NaiveParse(lines) ==
    LET r == NaiveScan(lines, "", <<>>) IN
    IF r.q # "" /\ Len(r.opts) >= 4
    THEN <<Candidate(r.q, SubSeq(r.opts, 1, 4), None)>>
    ELSE <<>>

\* a provider that is not configured or whose call or reply fails
NoReply == [ok |-> FALSE, questions |-> <<>>]

\* parse_mcqs_with_ai(input_text): the questions of the provider's JSON reply
\* as json.loads returns them, the naive parser otherwise
ParseMcqsWithAi(lines, reply) ==
    IF lines = <<>> THEN <<>>
    ELSE IF reply.ok THEN reply.questions
    ELSE NaiveParse(lines)

\* raw texts: up to MaxLines lines, each a question line or an option line
RECURSIVE LinesUpTo(_)
LinesUpTo(n) ==
    IF n = 0 THEN {<<>>}
    ELSE LinesUpTo(n - 1) \cup
         {Append(ls, l) : ls \in {x \in LinesUpTo(n - 1) : Len(x) = n - 1},
                          l \in {"Q?", "Iron"}}

RawTexts == LinesUpTo(MaxLines)

\* the replies of a provider: NoReply or a JSON document with one question
Replies == {NoReply} \cup {[ok |-> TRUE, questions |-> <<c>>] : c \in Candidates}

\* context.user_data before an upload has been finalized
NoUserData ==
    [parsed_mcqs |-> <<>>, review_index |-> 0, editing |-> FALSE,
     upload_step |-> "", extracted_questions |-> <<>>, approved_questions |-> <<>>]

\* ------------------------------------------------------ contributor counters
\* upload_count, approved_count, flagged_count, rejected_count default 0,
\* average_moderation_score nullable
NoStats ==
    [upload_count |-> 0, approved_count |-> 0, flagged_count |-> 0,
     rejected_count |-> 0, average_moderation_score |-> NULL]

\* Python round(num / den) for num >= 0, den > 0: to the nearest integer, a
\* tie to the even one
Round(num, den) ==
    LET q == num \div den
        r == num % den IN
    IF 2 * r < den THEN q
    ELSE IF 2 * r > den THEN q + 1
    ELSE IF q % 2 = 0 THEN q ELSE q + 1

\* AnalyticsService.update_contributor_stats(user_id, question_id, action), the
\* counters: if action == "approved" ... elif "flagged" ... elif "rejected"
UpdateContributorStats(row, action) ==
    IF action = "approved" THEN [row EXCEPT !.approved_count = @ + 1]
    ELSE IF action = "flagged" THEN [row EXCEPT !.flagged_count = @ + 1]
    ELSE IF action = "rejected" THEN [row EXCEPT !.rejected_count = @ + 1]
    ELSE row

\* what moderate_question_with_ai can return: the provider's JSON as it is, or
\* the heuristic result; action None is a reply without the key
ModerationReplies ==
    [action : {"accept", "flag", "reject", None}, moderation_score : {50, 75}]

\* action = (moderation.get("action") or "flag").lower()
ActionOf(moderation) ==
    IF moderation.action \in {None, ""} THEN "flag" ELSE Lower(moderation.action)

\* the counters of _insert_question_with_moderation as assigned on the loaded
\* user row before the commit
StageCounters(row, action, mscore) ==
    LET counted == [row EXCEPT !.upload_count = @ + 1] IN
    IF action = "reject" THEN [counted EXCEPT !.rejected_count = @ + 1]
    ELSE IF action = "flag" THEN [counted EXCEPT !.flagged_count = @ + 1]
    ELSE LET approved == [counted EXCEPT !.approved_count = @ + 1]
             prev_avg == IF row.average_moderation_score = NULL THEN 0
                         ELSE row.average_moderation_score
             prev_n == IF approved.approved_count > 0
                       THEN approved.approved_count - 1 ELSE 0 IN
         IF mscore = NULL THEN approved
         ELSE [approved EXCEPT !.average_moderation_score =
                                   Round(prev_avg * prev_n + mscore, prev_n + 1)]

\* commit of a loaded user row: the UPDATE carries the changed columns only
FlushStats(db, view, target) ==
    [col \in DOMAIN db |-> IF target[col] # view[col] THEN target[col] ELSE db[col]]

\* select(User).where(User.username == (tg_user.username or None)): the rows
\* with the acting user's username (IS NULL for a user without one)
UsersByUsername(admin_id) ==
    {u \in DOMAIN users : users[u].username = users[admin_id].username}

\* the keyword arguments of Question(...) in _insert_question_with_moderation
InsertKeywords ==
    {"topic_id", "question_text", "option_a", "option_b", "option_c", "option_d",
     "correct_answer", "explanation", "source", "uploader_user_id",
     "uploader_username", "is_active", "moderation_score", "moderation_comments",
     "moderated_by_ai", "needs_review"}

\* the attributes of database.models.Question
QuestionAttributes ==
    {"question_id", "unit", "topic", "question_text", "option_a", "option_b",
     "option_c", "option_d", "correct_option", "explanation", "uploader_id",
     "verified_by", "created_at", "topic_id", "paper_id", "difficulty",
     "uploader_username", "source", "is_active", "topic_rel", "paper", "uploader",
     "verifier", "moderation_score", "moderation_comments", "moderated_by_ai",
     "needs_review", "reviewed_by_admin_id", "metadata", "registry"}

\* the declarative constructor raises TypeError for a keyword that is not an
\* attribute of the class
ConstructorRaises == ~(InsertKeywords \subseteq QuestionAttributes)

\* Question(..., uploader_user_id=None, is_active=(not needs_review),
\* moderation_score=(int(mscore) if mscore is not None else None),
\* needs_review=needs_review)
InsertedQuestion(action, t, mscore) ==
    [uploader_id |-> NULL, created_at |-> t,
     is_active |-> (action # "flag"), needs_review |-> (action = "flag"),
     moderation_score |-> mscore, from_batch |-> 0]

Workers == 1..NumWorkers

\* --------------------------------------------------------- AI providers
\* the provider names the callers know, and a name they do not
KnownProviders == {"gemini", "openai"}
ProviderNames == KnownProviders \cup {"claude"}

\* os.getenv("AI_PROVIDER", "gemini") with the variable unset
EnvAiProvider == "gemini"

\* the outcome of a call that left with an exception
Raised == "<raised>"

\* Redis and the environment as a call finds them: redis_up FALSE is a
\* connection that raises, stored the value of "ai:active_provider" (None
\* when the key is absent), fallback the value of AI_FALLBACK_PROVIDER
Configs ==
    [redis_up : BOOLEAN, stored : ProviderNames \cup {None}, fallback : KnownProviders]

\* get_active_ai_provider(): r.get raises when Redis is away; the stored
\* value if there is one, the environment's otherwise
GetActiveAiProvider(cfg) ==
    IF ~cfg.redis_up THEN Raised
    ELSE IF cfg.stored # None THEN cfg.stored
    ELSE EnvAiProvider

Range(seq) == {seq[i] : i \in DOMAIN seq}

\* a moderation result that is not there
NoModeration == [action |-> None, moderation_score |-> NULL]

\* what a provider call in progress or finished holds: the function, the
\* active provider it looked up, the providers it could use, those it
\* attempted in order with the outcome of each attempt, and its result (the
\* provider of the returned value, "none", "heuristic", "empty" or Raised);
\* for a parse the lines of its input text and the questions it returned, for
\* a moderation the question it was given and the value it returned
Call(fn, active, configured, tried, outcomes, result) ==
    [pc |-> "done", fn |-> fn, active |-> active, configured |-> configured,
     tried |-> tried, outcomes |-> outcomes, result |-> result,
     queue |-> <<>>, i |-> 0, calls |-> 0, slept |-> <<>>, retry |-> "none",
     lines |-> <<>>, questions |-> <<>>, value |-> NoModeration]

\* no provider call in progress
IdleCall == [Call("", None, {}, <<>>, <<>>, "") EXCEPT !.pc = "idle"]

\* the loop of call_ai over [provider, fallback]: a name already tried is
\* skipped; "gemini" and "openai" return their value; any other name falls
\* through to the next one; after the loop {"provider": "none", ...}
RECURSIVE CallAiLoop(_, _, _)
CallAiLoop(names, tried, outcomes) ==
    IF names = <<>> THEN [tried |-> tried, outcomes |-> outcomes, result |-> "none"]
    ELSE LET name == Head(names) IN
         IF name \in Range(tried) THEN CallAiLoop(Tail(names), tried, outcomes)
         ELSE IF name \in KnownProviders
         THEN [tried |-> Append(tried, name), outcomes |-> Append(outcomes, TRUE),
               result |-> name]
         ELSE CallAiLoop(Tail(names), Append(tried, name), Append(outcomes, FALSE))

\* call_ai(prompt): the lookup of the active provider is outside the try
CallAiResult(cfg) ==
    LET provider == GetActiveAiProvider(cfg) IN
    IF provider = Raised
    THEN Call("call_ai", None, {cfg.fallback}, <<>>, <<>>, Raised)
    ELSE LET r == CallAiLoop(<<provider, cfg.fallback>>, <<>>, <<>>) IN
         Call("call_ai", provider, {provider, cfg.fallback}, r.tried, r.outcomes,
              r.result)

\* the API keys of the environment and whether a call of each provider works
Keys == [gemini : BOOLEAN, openai : BOOLEAN]
Works == [gemini : BOOLEAN, openai : BOOLEAN]

KeyedProviders(keys) ==
    {n \in KnownProviders : IF n = "gemini" THEN keys.gemini ELSE keys.openai}

\* AIService.parse_questions_from_text: the active provider with a key is
\* called and its result or its exception is the call's; otherwise Gemini and
\* then OpenAI are tried when they have a key, each inside try/except-pass,
\* and _fallback_parse_questions answers last; the outer except re-raises
ParseQuestionsResult(cfg, keys, works) ==
    LET provider == GetActiveAiProvider(cfg)
        fn == "parse_questions_from_text"
        configured == KeyedProviders(keys) IN
    IF provider = Raised THEN Call(fn, None, configured, <<>>, <<>>, Raised)
    ELSE IF provider = "gemini" /\ keys.gemini
    THEN Call(fn, provider, configured, <<"gemini">>, <<works.gemini>>,
              IF works.gemini THEN "gemini" ELSE Raised)
    ELSE IF provider = "openai" /\ keys.openai
    THEN Call(fn, provider, configured, <<"openai">>, <<works.openai>>,
              IF works.openai THEN "openai" ELSE Raised)
    ELSE IF keys.gemini /\ works.gemini
    THEN Call(fn, provider, configured, <<"gemini">>, <<TRUE>>, "gemini")
    ELSE LET t == IF keys.gemini THEN <<"gemini">> ELSE <<>>
             o == IF keys.gemini THEN <<FALSE>> ELSE <<>> IN
         IF keys.openai
         THEN Call(fn, provider, configured, Append(t, "openai"),
                   Append(o, works.openai),
                   IF works.openai THEN "openai" ELSE "heuristic")
         ELSE Call(fn, provider, configured, t, o, "heuristic")

\* ------------------------------------------------ moderate_question_with_ai
\* score = 50; action = "accept" if score >= 70 else "flag"
HeuristicFlagScore == 50
HeuristicAcceptThreshold == 70

\* the heuristic fallback: score 75 if the stripped question text ends with
\* "?" and len(opts) >= 4, score 50 otherwise
HeuristicModeration(c) ==
    LET qtext == IF c.question = None THEN "" ELSE Strip(c.question)
        score == IF EndsWithQuestionMark(qtext) /\ Len(c.options) >= 4
                 THEN HeuristicAcceptScore ELSE HeuristicFlagScore IN
    [action |-> IF score >= HeuristicAcceptThreshold THEN "accept" ELSE "flag",
     moderation_score |-> score]

\* the questions moderation is asked about
ModeratedCandidates ==
    Candidates \cup {Candidate("Q?", <<"Iron", "Zinc", "Lead", "Gold", "Tin">>, "A"),
                     Candidate("Iron", FourOptions, "A")}

\* the JSON objects a provider can answer with; action None is an object
\* without the key
ProviderModerations ==
    [action : {"accept", "flag", "reject", "approve", None}, moderation_score : {82, 150}]

\* a provider call that raises or whose reply json.loads refuses, or the
\* object of its reply
FailedModeration == [ok |-> FALSE, result |-> NoModeration]
ModerationAnswers ==
    {FailedModeration} \cup {[ok |-> TRUE, result |-> m] : m \in ProviderModerations}

\* moderate_question_with_ai(question_data): OpenAI if it has a key, then
\* Gemini if it has one, each returning json.loads of its reply as it is; an
\* exception is logged and the next one follows; the heuristic answers last
ModerateQuestionWithAi(c, keys, from_openai, from_gemini) ==
    LET fn == "moderate_question_with_ai"
        configured == KeyedProviders(keys)
        call == Call(fn, None, configured, <<>>, <<>>, "") IN
    IF keys.openai /\ from_openai.ok
    THEN [call EXCEPT !.tried = <<"openai">>, !.outcomes = <<TRUE>>,
                      !.result = "openai", !.questions = <<c>>,
                      !.value = from_openai.result]
    ELSE LET t == IF keys.openai THEN <<"openai">> ELSE <<>>
             o == IF keys.openai THEN <<FALSE>> ELSE <<>> IN
         IF keys.gemini /\ from_gemini.ok
         THEN [call EXCEPT !.tried = Append(t, "gemini"), !.outcomes = Append(o, TRUE),
                           !.result = "gemini", !.questions = <<c>>,
                           !.value = from_gemini.result]
         ELSE [call EXCEPT !.tried = IF keys.gemini THEN Append(t, "gemini") ELSE t,
                           !.outcomes = IF keys.gemini THEN Append(o, FALSE) ELSE o,
                           !.result = "heuristic", !.questions = <<c>>,
                           !.value = HeuristicModeration(c)]

\* ---------------------------------------------------- retry_with_backoff
\* attempts: int = 3, base_delay: float = 1.0 (seconds)
attempts == 3
base_delay == 1

\* what one call of fn inside retry_with_backoff does: it returns a reply that
\* json.loads accepts, returns one that json.loads refuses, or raises
AttemptOutcomes == {"ok", "bad_json", "error"}

\* the state of a retry_with_backoff call before its first iteration
FreshRetry(c) == [c EXCEPT !.i = 0, !.calls = 0, !.slept = <<>>, !.retry = "running"]

\* slip: the delay grows by base_delay * 2 * i
RetryIteration_LinearDelay(r, outcome) ==
    IF outcome # "error"
    THEN [r EXCEPT !.calls = @ + 1, !.retry = "returned"]
    ELSE IF r.i < attempts - 1
    THEN [r EXCEPT !.calls = @ + 1, !.i = @ + 1,
                   !.slept = Append(@, base_delay * 2 * r.i)]
    ELSE [r EXCEPT !.calls = @ + 1, !.retry = "raised"]

\* one iteration of for i in range(attempts): fn is called; a return ends the
\* loop with its value; an exception is kept as last_exc and, if
\* i < attempts - 1, followed by time.sleep(base_delay * (2 ** i)); after the
\* last iteration last_exc is raised
RetryIteration(r, outcome) ==
    IF outcome # "error"
    THEN [r EXCEPT !.calls = @ + 1, !.retry = "returned"]
    ELSE IF r.i < attempts - 1
    THEN [r EXCEPT !.calls = @ + 1, !.i = @ + 1,
                   !.slept = Append(@, base_delay * (2 ^ r.i))]
    ELSE [r EXCEPT !.calls = @ + 1, !.retry = "raised"]

\* parse_mcqs_with_ai: OpenAI if OPENAI_API_KEY is set, then Gemini if
\* GEMINI_API_KEY is set, whatever the active provider is
ParseProviders(keys) ==
    (IF keys.openai THEN <<"openai">> ELSE <<>>)
        \o (IF keys.gemini THEN <<"gemini">> ELSE <<>>)

IdlePub ==
    [pc |-> "idle", admin_id |-> 0, uploader |-> NULL, action |-> "",
     moderation_score |-> NULL, view |-> NoStats, target |-> NoStats]

\* ----------------------------------------------------------------- results
\* a call, the lock holder it loaded (lock calls) and what it returned
Result(op, batch_id, admin_id, success, message, name, count) ==
    [op |-> op, batch_id |-> batch_id, admin_id |-> admin_id, holder |-> NULL,
     success |-> success, message |-> message, name |-> name, count |-> count]

LockResult(batch_id, admin_id, holder, success, message, name) ==
    [Result("lock_batch_for_review", batch_id, admin_id, success, message, name, 0)
        EXCEPT !.holder = holder]

Idle == [pc |-> "idle", batch_id |-> 0, view |-> NoView, target |-> NoView]

Sweepers == 1..NumSweepers

\* a run of cleanup_expired_locks that has loaded no rows
IdleSweep == [pc |-> "idle", view |-> [b \in {} |-> NoView]]

\* -------------------------------------------------------------------- Init
Init ==
    /\ now = 0
    /\ users = [a \in Admins |->
                  [username |-> IF a % 2 = 1 THEN UsernameOf(a) ELSE NoName,
                   first_name |-> FirstNameOf(a)]]
    /\ upload_batches = <<>>
    /\ questions = <<>>
    /\ last = Result("init", 0, 0, TRUE, "", NoName, 0)
    /\ displaced = [b \in BatchIds |-> NULL]
    /\ sess = [a \in Admins |-> Idle]
    /\ sweep = [s \in Sweepers |-> IdleSweep]
    /\ upload_items = <<>>
    /\ user_data = [a \in Admins |-> NoUserData]
    /\ user_stats = [a \in Admins |-> NoStats]
    /\ pub = [w \in Workers |-> IdlePub]
    /\ recorded = [a \in Admins |-> [n |-> 0, sum |-> 0]]
    /\ system_logs = <<>>
    /\ upload_audits = <<>>
    /\ gw = [a \in Admins |-> IdleCall]
    /\ ai_events = <<>>

\* ------------------------------------------------------------------ clock
Tick(d) ==
    /\ now' = now + d
    /\ last' = Result("tick", 0, 0, TRUE, "", NoName, 0)
    /\ UNCHANGED <<users, upload_batches, questions, displaced, sess>>
    /\ UNCHANGED flowVars

\* ---------------------------------------------------- create_upload_batch
CreateUploadBatch(uploader_id) ==
    /\ upload_batches' = Append(upload_batches, NewBatch(uploader_id, 0, now))
    /\ last' = Result("create_upload_batch", Len(upload_batches) + 1, uploader_id,
                      TRUE, "", NoName, 0)
    /\ UNCHANGED <<now, users, questions, displaced, sess>>
    /\ UNCHANGED flowVars

\* -------------------------------------------------- lock_batch_for_review
\* history of takeovers: a successful lock over another admin's lock records
\* the displaced admin until the lock is released again
TakeOver(b, admin_id) ==
    LET h == upload_batches[b].locked_by IN
    [displaced EXCEPT ![b] = IF h = NULL THEN NULL ELSE IF h = admin_id THEN @ ELSE h]

Released(bs) == [b \in BatchIds |-> IF b \in bs THEN NULL ELSE displaced[b]]

LockBatchForReview(batch_id, admin_id) ==
    /\ UNCHANGED <<now, users, questions, sess>>
    /\ UNCHANGED flowVars
    /\ IF ~Exists(batch_id)
       THEN /\ last' = LockResult(batch_id, admin_id, NULL, FALSE, "Batch not found", NoName)
            /\ UNCHANGED <<upload_batches, displaced>>
       ELSE LET row == upload_batches[batch_id] IN
            IF LockRefused(row, admin_id, now)
            THEN /\ last' = LockResult(batch_id, admin_id, row.locked_by, FALSE,
                                       "This batch is currently being reviewed by",
                                       LockerName(row.locked_by))
                 /\ UNCHANGED <<upload_batches, displaced>>
            ELSE /\ upload_batches' =
                        [upload_batches EXCEPT ![batch_id] =
                            Flush(row, row, LockAssign(row, admin_id, now))]
                 /\ displaced' = TakeOver(batch_id, admin_id)
                 /\ last' = LockResult(batch_id, admin_id, row.locked_by, TRUE,
                                       "Batch locked for review", NoName)

\* lock_batch_for_review as two steps of its session: the query, the check and
\* the assignments first, session.commit() and the return later
LockRead(batch_id, admin_id) ==
    /\ sess[admin_id].pc = "idle"
    /\ UNCHANGED <<now, users, upload_batches, questions, displaced>>
    /\ UNCHANGED flowVars
    /\ IF ~Exists(batch_id)
       THEN /\ last' = LockResult(batch_id, admin_id, NULL, FALSE, "Batch not found", NoName)
            /\ UNCHANGED sess
       ELSE LET row == upload_batches[batch_id] IN
            IF LockRefused(row, admin_id, now)
            THEN /\ last' = LockResult(batch_id, admin_id, row.locked_by, FALSE,
                                       "This batch is currently being reviewed by",
                                       LockerName(row.locked_by))
                 /\ UNCHANGED sess
            ELSE /\ sess' = [sess EXCEPT ![admin_id] =
                                [pc |-> "lock_commit", batch_id |-> batch_id,
                                 view |-> row,
                                 target |-> LockAssign(row, admin_id, now)]]
                 /\ last' = Result("lock_read", batch_id, admin_id, TRUE, "", NoName, 0)

LockCommit(admin_id) ==
    /\ sess[admin_id].pc = "lock_commit"
    /\ LET b == sess[admin_id].batch_id IN
       /\ upload_batches' =
             [upload_batches EXCEPT ![b] =
                 Flush(upload_batches[b], sess[admin_id].view, sess[admin_id].target)]
       /\ displaced' = TakeOver(b, admin_id)
       /\ last' = LockResult(b, admin_id, sess[admin_id].view.locked_by, TRUE,
                             "Batch locked for review", NoName)
    /\ sess' = [sess EXCEPT ![admin_id] = Idle]
    /\ UNCHANGED <<now, users, questions>>
    /\ UNCHANGED flowVars

\* ----------------------------------------- get_available_batches_for_admin
\* the batch ids of the rows the query returns
AvailableBatches(admin_id) ==
    {b \in DOMAIN upload_batches : AvailableFilter(upload_batches[b], admin_id, now)}

\* last: count = the number of batches listed
GetAvailableBatchesForAdmin(admin_id) ==
    /\ last' = Result("get_available_batches_for_admin", 0, admin_id, TRUE, "", NoName,
                      Cardinality(AvailableBatches(admin_id)))
    /\ UNCHANGED <<now, users, upload_batches, questions, displaced, sess>>
    /\ UNCHANGED flowVars

\* ------------------------------------------------------------ unlock_batch
UnlockBatch(batch_id, admin_id) ==
    /\ UNCHANGED <<now, users, questions, sess>>
    /\ UNCHANGED flowVars
    /\ last' = Result("unlock_batch", batch_id, admin_id, TRUE, "", NoName, 0)
    /\ IF Exists(batch_id) /\ IsLockHolder(upload_batches[batch_id], admin_id)
       THEN LET row == upload_batches[batch_id] IN
            /\ upload_batches' = [upload_batches EXCEPT ![batch_id] =
                                     Flush(row, row, UnlockAssign(row))]
            /\ displaced' = Released({batch_id})
       ELSE UNCHANGED <<upload_batches, displaced>>

\* ------------------------------------------- approve_batch / reject_batch
Terminate(op, status, active, batch_id, admin_id) ==
    /\ UNCHANGED <<now, users, sess>>
    /\ UNCHANGED flowVars
    /\ IF ~Exists(batch_id)
       THEN /\ last' = Result(op, batch_id, admin_id, FALSE, "Batch not found", NoName, 0)
            /\ UNCHANGED <<upload_batches, questions, displaced>>
       ELSE LET row == upload_batches[batch_id] IN
            IF NotLockHolder(row, admin_id)
            THEN /\ last' = Result(op, batch_id, admin_id, FALSE,
                                   "You don't have permission", NoName, 0)
                 /\ UNCHANGED <<upload_batches, questions, displaced>>
            ELSE /\ upload_batches' =
                        [upload_batches EXCEPT ![batch_id] =
                            Flush(row, row, TerminalAssign(row, status, now))]
                 /\ questions' = SetQuestions(row, active)
                 /\ displaced' = Released({batch_id})
                 /\ last' = Result(op, batch_id, admin_id, TRUE, status, NoName,
                                   Cardinality(BatchQuestions(row)))

ApproveBatch(batch_id, admin_id) ==
    Terminate("approve_batch", "approved", TRUE, batch_id, admin_id)

RejectBatch(batch_id, admin_id) ==
    Terminate("reject_batch", "rejected", FALSE, batch_id, admin_id)

\* approve_batch / reject_batch as two steps of their session: the query, the
\* holder check and the assignments first (pc names the call), session.commit()
\* and the return later
TerminateRead(op, status, batch_id, admin_id) ==
    /\ sess[admin_id].pc = "idle"
    /\ UNCHANGED <<now, users, upload_batches, questions, displaced>>
    /\ UNCHANGED flowVars
    /\ IF ~Exists(batch_id)
       THEN /\ last' = Result(op, batch_id, admin_id, FALSE, "Batch not found", NoName, 0)
            /\ UNCHANGED sess
       ELSE LET row == upload_batches[batch_id] IN
            IF NotLockHolder(row, admin_id)
            THEN /\ last' = Result(op, batch_id, admin_id, FALSE,
                                   "You don't have permission", NoName, 0)
                 /\ UNCHANGED sess
            ELSE /\ sess' = [sess EXCEPT ![admin_id] =
                                [pc |-> op, batch_id |-> batch_id, view |-> row,
                                 target |-> TerminalAssign(row, status, now)]]
                 /\ last' = Result("terminate_read", batch_id, admin_id, TRUE, "",
                                   NoName, 0)

TerminateCommit(admin_id) ==
    /\ sess[admin_id].pc \in {"approve_batch", "reject_batch"}
    /\ LET b == sess[admin_id].batch_id
           view == sess[admin_id].view IN
       /\ upload_batches' =
             [upload_batches EXCEPT ![b] =
                 Flush(upload_batches[b], view, sess[admin_id].target)]
       /\ questions' = SetQuestions(view, sess[admin_id].pc = "approve_batch")
       /\ displaced' = Released({b})
       /\ last' = Result(sess[admin_id].pc, b, admin_id, TRUE,
                         sess[admin_id].target.status, NoName,
                         Cardinality(BatchQuestions(view)))
    /\ sess' = [sess EXCEPT ![admin_id] = Idle]
    /\ UNCHANGED <<now, users>>
    /\ UNCHANGED flowVars

\* -------------------------------------------------- cleanup_expired_locks
ExpiredBatches == {b \in DOMAIN upload_batches : SweepFilter(upload_batches[b], now)}

CleanupExpiredLocks ==
    /\ upload_batches' =
          [b \in DOMAIN upload_batches |->
              IF b \in ExpiredBatches
              THEN Flush(upload_batches[b], upload_batches[b],
                         UnlockAssign(upload_batches[b]))
              ELSE upload_batches[b]]
    /\ displaced' = Released(ExpiredBatches)
    /\ last' = Result("cleanup_expired_locks", 0, 0, TRUE, "", NoName,
                      Cardinality(ExpiredBatches))
    /\ UNCHANGED <<now, users, questions, sess>>
    /\ UNCHANGED flowVars

\* cleanup_expired_locks as two steps of its session: the query that loads the
\* expired rows first, the assignments, session.commit() and the return later
CleanupRead(s) ==
    /\ sweep[s].pc = "idle"
    /\ sweep' = [sweep EXCEPT ![s] =
                    [pc |-> "cleanup_commit",
                     view |-> [b \in ExpiredBatches |-> upload_batches[b]]]]
    /\ last' = Result("cleanup_read", 0, s, TRUE, "", NoName, 0)
    /\ UNCHANGED <<now, users, upload_batches, questions, displaced, sess>>
    /\ UNCHANGED <<upload_items, user_data, statVars, auditVars>>

CleanupCommit(s) ==
    /\ sweep[s].pc = "cleanup_commit"
    /\ LET view == sweep[s].view IN
       /\ upload_batches' =
             [b \in DOMAIN upload_batches |->
                 IF b \in DOMAIN view
                 THEN Flush(upload_batches[b], view[b], UnlockAssign(view[b]))
                 ELSE upload_batches[b]]
       /\ displaced' = Released({b \in DOMAIN view : upload_batches'[b].locked_by = NULL})
       /\ last' = Result("cleanup_expired_locks", 0, s, TRUE, "", NoName,
                         Cardinality(DOMAIN view))
    /\ sweep' = [sweep EXCEPT ![s] = IdleSweep]
    /\ UNCHANGED <<now, users, questions, sess>>
    /\ UNCHANGED <<upload_items, user_data, statVars, auditVars>>

\* ------------------------------------------------ reprocess_upload_command
\* UploadItem(batch_id=..., raw_text=raw, parsed_json=parsed, status='draft')
NewItem(batch_id) == [batch_id |-> batch_id, has_raw |-> TRUE, status |-> "draft"]

\* for item in batch.items: raw = item.raw_text or ""; if not raw: continue
ReprocessSources(upload_id) ==
    {i \in DOMAIN upload_items :
        upload_items[i].batch_id = upload_id /\ upload_items[i].has_raw}

\* slip: the handler stores the reprocessed raw upload as one new draft item of
\* the batch
ReprocessUpload_StoreItem(upload_id, admin_id) ==
    /\ Exists(upload_id)
    /\ upload_items' = Append(upload_items, NewItem(upload_id))
    /\ last' = Result("reprocess_upload", upload_id, admin_id, TRUE, "Reprocessed",
                      NoName, 1)
    /\ UNCHANGED <<now, users, upload_batches, questions, displaced, sess, sweep>>
    /\ UNCHANGED <<user_data, statVars, auditVars>>

\* /reprocess_upload <upload_id>: the batch is loaded by primary key, with no
\* check of its status or of its lock; a new item is built for every item of
\* the batch that carries raw text.  Building it evaluates batch.id, and
\* database.models.UploadBatch has the column batch_id and no attribute id, so
\* the handler raises before db.add and db.commit.
ReprocessUpload(upload_id, admin_id) ==
    /\ UNCHANGED <<now, users, upload_batches, questions, displaced, sess>>
    /\ UNCHANGED flowVars
    /\ IF ~Exists(upload_id)
       THEN last' = Result("reprocess_upload", upload_id, admin_id, FALSE,
                           "Upload batch not found", NoName, 0)
       ELSE IF ReprocessSources(upload_id) # {}
            THEN last' = Result("reprocess_upload", upload_id, admin_id, FALSE,
                                "AttributeError", NoName, 0)
            ELSE last' = Result("reprocess_upload", upload_id, admin_id, TRUE,
                                "Reprocessed", NoName, 0)

\* --------------------------------------------------- _process_text_upload
\* the handler up to the parse: create_upload_batch(user_id, 0), then
\* questions = _parse_text_questions(text); n is len(questions)
TextUploadCreate(user_id, n) ==
    /\ sess[user_id].pc = "idle"
    /\ upload_batches' = Append(upload_batches, NewBatch(user_id, 0, now))
    /\ IF n = 0
       THEN /\ last' = Result("process_text_upload", Len(upload_batches) + 1, user_id,
                              FALSE, "No valid questions found", NoName, 0)
            /\ UNCHANGED sess
       ELSE /\ last' = Result("create_upload_batch", Len(upload_batches) + 1, user_id,
                              TRUE, "", NoName, 0)
            /\ sess' = [sess EXCEPT ![user_id] =
                           [pc |-> "text_count", batch_id |-> Len(upload_batches) + 1,
                            view |-> NoView,
                            target |-> [NoView EXCEPT !.questions_count = n]]]
    /\ UNCHANGED <<now, users, questions, displaced>>
    /\ UNCHANGED flowVars

\* the rest of the handler, in a session of its own: the batch is queried by
\* id, batch.questions_count = len(questions), session.commit()
TextUploadCount(user_id) ==
    /\ sess[user_id].pc = "text_count"
    /\ LET b == sess[user_id].batch_id
           n == sess[user_id].target.questions_count IN
       /\ upload_batches' =
             IF Exists(b)
             THEN [upload_batches EXCEPT ![b] = [@ EXCEPT !.questions_count = n]]
             ELSE upload_batches
       /\ last' = Result("process_text_upload", b, user_id, TRUE,
                         "Text Upload Processed", NoName, n)
    /\ sess' = [sess EXCEPT ![user_id] = Idle]
    /\ UNCHANGED <<now, users, questions, displaced>>
    /\ UNCHANGED flowVars

\* ------------------------------------------------------- admin_upload_done
\* parsed = parse_mcqs_with_ai(raw_text); user_data["parsed_mcqs"] = parsed;
\* user_data["review_index"] = 0
AdminUploadDone(admin_id, lines, reply) ==
    /\ user_data' = [user_data EXCEPT ![admin_id] =
                        [@ EXCEPT !.parsed_mcqs = ParseMcqsWithAi(lines, reply),
                                  !.review_index = 0]]
    /\ last' = Result("admin_upload_done", 0, admin_id, TRUE, "", NoName,
                      Len(ParseMcqsWithAi(lines, reply)))
    /\ UNCHANGED <<now, users, upload_batches, questions, displaced, sess>>
    /\ UNCHANGED <<sweep, upload_items, statVars, auditVars>>

\* ------------------------------------------------- extract_text_from_file
\* an uploaded image or document: the lines Vision reads on it, and the lines
\* that file_bytes.decode("utf-8", errors="ignore") leaves of its bytes
Payloads ==
    [shown : {<<>>, <<"Q?", "Iron", "Iron", "Iron", "Iron">>},
     raw : {<<>>, <<"Iron">>, <<"Q?", "Iron", "Iron", "Iron", "Iron">>}]

\* what retry_with_backoff(_call_vision) ends with: a response with the text,
\* a response without a text annotation, or the exception of the last attempt
VisionOutcomes == {"text", "empty", "error"}

\* extract_text_from_file(file_bytes, mime_type): the text of the Vision
\* response when GOOGLE_APPLICATION_CREDENTIALS is set, the call returns and
\* the text is not empty; otherwise the bytes decoded with errors ignored
ExtractTextFromFile(payload, use_google, vision) ==
    IF use_google /\ vision = "text" /\ payload.shown # <<>>
    THEN payload.shown
    ELSE payload.raw

\* admin_upload_done with upload_mode image and one item in the bucket:
\* raw_text is the extracted text, parsed as in the text mode
\* last: message = whether Vision was configured and returned
AdminUploadDoneFile(admin_id, payload, use_google, vision, reply) ==
    LET lines == ExtractTextFromFile(payload, use_google, vision) IN
    /\ user_data' = [user_data EXCEPT ![admin_id] =
                        [@ EXCEPT !.parsed_mcqs = ParseMcqsWithAi(lines, reply),
                                  !.review_index = 0]]
    /\ last' = Result("admin_upload_done_file", 0, admin_id, TRUE,
                      IF use_google /\ vision # "error" THEN "extracted"
                      ELSE "not extracted",
                      NoName, Len(ParseMcqsWithAi(lines, reply)))
    /\ UNCHANGED <<now, users, upload_batches, questions, displaced, sess>>
    /\ UNCHANGED <<sweep, upload_items, statVars, auditVars>>

\* ------------------------------------------- publishing a Question row
ModerationActions == {"accept", "flag", "reject"}

\* Question(..., uploader_id=user.user_id, is_active=True, created_at=utcnow(),
\* moderation_score=moderation_result.get('moderation_score', 0))
\* followed by the flags set from the moderation action; the score is the
\* heuristic one of the action (75 with accept, 50 otherwise)
NewQuestion(uploader_id, action, t, from_batch) ==
    [uploader_id |-> uploader_id, created_at |-> t,
     is_active |-> (action # "reject"),
     needs_review |-> (action \notin {"accept", "reject"}),
     moderation_score |-> IF action = "accept" THEN HeuristicAcceptScore
                          ELSE HeuristicFlagScore,
     from_batch |-> from_batch]

\* _upload_questions_to_db for one question: the row is added and flushed,
\* update_contributor_stats(user.user_id, question_id, action) runs in a
\* session of its own (the flushed row is not visible to it, so the average
\* is left alone), then the row is committed; user.upload_count is assigned
\* on an object of a closed session and is not written.
\* the batches a question published by uploader_id at this moment can come
\* from: the uploader's batches that have not reached a terminal status
\* (the questions table stores no batch id; from_batch is a history field)
OpenBatchesOf(uploader_id) ==
    {b \in DOMAIN upload_batches :
        /\ upload_batches[b].uploader_id = uploader_id
        /\ upload_batches[b].status \in {"draft", "review"}
        /\ upload_batches[b].completed_at = NULL}

UploadQuestion(uploader_id, action, from_batch) ==
    /\ from_batch \in OpenBatchesOf(uploader_id)
    /\ questions' = Append(questions, NewQuestion(uploader_id, action, now, from_batch))
    /\ user_stats' = [user_stats EXCEPT ![uploader_id] =
                          UpdateContributorStats(@, action)]
    /\ recorded' = IF action = "accept"
                   THEN [recorded EXCEPT ![uploader_id] =
                            [n |-> @.n + 1, sum |-> @.sum + HeuristicAcceptScore]]
                   ELSE recorded
    /\ last' = Result("upload_question", from_batch, uploader_id, TRUE, action, NoName, 0)
    /\ UNCHANGED <<now, users, upload_batches, displaced, sess>>
    /\ UNCHANGED <<sweep, upload_items, user_data, pub, auditVars>>

\* ------------------------------------------------- the moderation queue
\* sum(q.moderation_score for q in all_questions) and len(all_questions) of
\* update_contributor_stats: the committed questions of the uploader that
\* have a score, among the first n rows of the table
RECURSIVE ScoreTotal(_, _, _)
ScoreTotal(rows, user_id, n) ==
    IF n = 0 THEN [n |-> 0, sum |-> 0]
    ELSE LET rest == ScoreTotal(rows, user_id, n - 1) IN
         IF rows[n].uploader_id = user_id /\ rows[n].moderation_score # NULL
         THEN [n |-> rest.n + 1, sum |-> rest.sum + rows[n].moderation_score]
         ELSE rest

\* update_contributor_stats(user_id, question_id, action) when the question is
\* committed: the counter of the action, then the average over the
\* uploader's scored questions if this question has a score other than 0
UpdateContributorStatsOf(row, rows, question_id, action) ==
    LET counted == UpdateContributorStats(row, action)
        total == ScoreTotal(rows, rows[question_id].uploader_id, Len(rows)) IN
    IF rows[question_id].moderation_score \notin {NULL, 0} /\ total.n > 0
    THEN [counted EXCEPT !.average_moderation_score = Round(total.sum, total.n)]
    ELSE counted

\* the body shared by moderation_approve_callback and
\* moderation_reject_callback: the question is loaded by its id; needs_review
\* is cleared and is_active set; the uploader's counters are updated in a
\* session of the analytics service; the row is committed
\* last: message = the stats action, count = the question id
ModerationDecide(admin_id, question_id, active, action) ==
    /\ IF question_id \notin DOMAIN questions
       THEN /\ last' = Result("moderation_callback", 0, admin_id, FALSE,
                              "Question not found", NoName, question_id)
            /\ UNCHANGED <<questions, user_stats>>
       ELSE LET uploader_id == questions[question_id].uploader_id IN
            /\ questions' = [questions EXCEPT ![question_id] =
                                [@ EXCEPT !.needs_review = FALSE,
                                          !.is_active = active]]
            /\ user_stats' =
                  IF uploader_id \in DOMAIN user_stats
                  THEN [user_stats EXCEPT ![uploader_id] =
                           UpdateContributorStatsOf(@, questions, question_id,
                                                    action)]
                  ELSE user_stats
            /\ last' = Result("moderation_callback", 0, admin_id, TRUE, action,
                              NoName, question_id)
    /\ UNCHANGED <<now, users, upload_batches, displaced, sess>>
    /\ UNCHANGED <<sweep, upload_items, user_data, pub, recorded, auditVars>>

\* moderation_approve_callback: is_active = True, stats action "approved"
ModerationApproveCallback(admin_id, question_id) ==
    ModerationDecide(admin_id, question_id, TRUE, "approved")

\* moderation_reject_callback: is_active = False, stats action "rejected"
ModerationRejectCallback(admin_id, question_id) ==
    ModerationDecide(admin_id, question_id, FALSE, "rejected")

\* ---------------------------------------- _insert_question_with_moderation
\* the call as two steps of its session: the moderation, the user row loaded
\* by username and the counters assigned on it first; the commit later
InsertRead(w, admin_id, moderation) ==
    /\ pub[w].pc = "idle"
    /\ IF Cardinality(UsersByUsername(admin_id)) > 1
       THEN /\ last' = Result("insert_question", 0, admin_id, FALSE,
                              "MultipleResultsFound", NoName, 0)
            /\ UNCHANGED pub
       ELSE LET uploader == IF UsersByUsername(admin_id) = {} THEN NULL
                            ELSE CHOOSE u \in UsersByUsername(admin_id) : TRUE
                view == IF uploader = NULL THEN NoStats ELSE user_stats[uploader] IN
            /\ pub' = [pub EXCEPT ![w] =
                          [pc |-> "insert_commit", admin_id |-> admin_id,
                           uploader |-> uploader, action |-> ActionOf(moderation),
                           moderation_score |-> moderation.moderation_score,
                           view |-> view,
                           target |-> StageCounters(view, ActionOf(moderation),
                                                    moderation.moderation_score)]]
            /\ last' = Result("insert_read", 0, admin_id, TRUE, "", NoName, 0)
    /\ UNCHANGED <<now, users, upload_batches, questions, displaced, sess>>
    /\ UNCHANGED <<sweep, upload_items, user_data, user_stats, recorded, auditVars>>

\* reject: db.commit() of the counters and return; accept and flag: the
\* Question is constructed, which raises before db.add and db.commit()
InsertCommit(w) ==
    /\ pub[w].pc = "insert_commit"
    /\ LET p == pub[w]
           committed == IF p.uploader = NULL THEN user_stats
                        ELSE [user_stats EXCEPT ![p.uploader] =
                                 FlushStats(@, p.view, p.target)] IN
       IF p.action = "reject"
       THEN /\ user_stats' = committed
            /\ UNCHANGED <<questions, recorded>>
            /\ last' = Result("insert_question", 0, p.admin_id, TRUE, p.action, NoName, 0)
       ELSE IF ConstructorRaises
       THEN /\ UNCHANGED <<user_stats, questions, recorded>>
            /\ last' = Result("insert_question", 0, p.admin_id, FALSE, p.action, NoName, 0)
       ELSE /\ user_stats' = committed
            /\ questions' = Append(questions, InsertedQuestion(p.action, now,
                                                                p.moderation_score))
            /\ recorded' = IF p.action = "flag" \/ p.uploader = NULL THEN recorded
                           ELSE [recorded EXCEPT ![p.uploader] =
                                    [n |-> @.n + 1, sum |-> @.sum + p.moderation_score]]
            /\ last' = Result("insert_question", 0, p.admin_id, TRUE, p.action, NoName, 1)
    /\ pub' = [pub EXCEPT ![w] = IdlePub]
    /\ UNCHANGED <<now, users, upload_batches, displaced, sess>>
    /\ UNCHANGED <<sweep, upload_items, user_data, auditVars>>

\* ---------------------------------------------------- admin_review_confirm
\* SystemLog(user_id=user.id, action=..., details=...)
NewSystemLog(user_id, action) == [user_id |-> user_id, action |-> action]

\* the two log writes of admin_review_confirm, each in a session of its own:
\* confirm is the commit of the "moderation_confirm" row, error the commit of
\* the "moderation_confirm_error" row; FALSE is a commit that raises
LogOutcomes == [confirm : BOOLEAN, error : BOOLEAN]

\* both log writes commit
LogsWritten == [confirm |-> TRUE, error |-> TRUE]

\* the handler with its call of _insert_question_with_moderation: an
\* exception of the call or of the log write that follows it is logged and
\* answered with "Something went wrong"; then the cursor moves on and the
\* reply is "Uploaded".  When the error log cannot be written either, the
\* exception leaves the handler before both.
\* last: success = no error was reported, message = the moderation action,
\* count = the questions the reply reports as uploaded
AdminReviewConfirm(admin_id, moderation, logs) ==
    LET ud == user_data[admin_id]
        action == ActionOf(moderation)
        found == UsersByUsername(admin_id)
        uploader == IF found = {} THEN NULL ELSE CHOOSE u \in found : TRUE
        committed == IF uploader = NULL THEN user_stats
                     ELSE [user_stats EXCEPT ![uploader] =
                              StageCounters(@, action, moderation.moderation_score)]
        raises == Cardinality(found) > 1 \/ (action # "reject" /\ ConstructorRaises)
        logged == ~raises /\ logs.confirm
        handled == logged \/ logs.error IN
    /\ UNCHANGED <<now, users, upload_batches, displaced, sess>>
    /\ UNCHANGED <<sweep, upload_items, pub, upload_audits, gw, ai_events>>
    /\ IF ud.review_index >= Len(ud.parsed_mcqs)
       THEN /\ last' = Result("admin_review_confirm", 0, admin_id, TRUE,
                              "No more questions", NoName, 0)
            /\ UNCHANGED <<questions, user_data, user_stats, recorded, system_logs>>
       ELSE /\ user_data' = IF handled
                            THEN [user_data EXCEPT ![admin_id].review_index = @ + 1]
                            ELSE user_data
            /\ system_logs' =
                  IF logged
                  THEN Append(system_logs, NewSystemLog(admin_id, "moderation_confirm"))
                  ELSE IF logs.error
                  THEN Append(system_logs,
                              NewSystemLog(admin_id, "moderation_confirm_error"))
                  ELSE system_logs
            /\ last' = Result("admin_review_confirm", 0, admin_id, logged, action,
                              NoName, IF handled THEN 1 ELSE 0)
            /\ IF raises
               THEN UNCHANGED <<questions, user_stats, recorded>>
               ELSE IF action = "reject"
               THEN /\ user_stats' = committed
                    /\ UNCHANGED <<questions, recorded>>
               ELSE /\ user_stats' = committed
                    /\ questions' = Append(questions, InsertedQuestion(action, now,
                                                   moderation.moderation_score))
                    /\ recorded' =
                          IF action = "flag" \/ uploader = NULL THEN recorded
                          ELSE [recorded EXCEPT ![uploader] =
                                   [n |-> @.n + 1,
                                    sum |-> @.sum + moderation.moderation_score]]

\* ----------------------------------------------------- create_audit_record
\* UploadAudit(upload_id, old_value, new_value, admin_id, action); the values
\* are free text and are left out
NewUploadAudit(upload_id, admin_id, action) ==
    [upload_id |-> upload_id, admin_id |-> admin_id, action |-> action]

AuditActions == {"edit", "approve", "reject"}

\* MultiAdminService.create_audit_record: session.add, session.commit, True;
\* a commit that raises is logged and answered with False
CreateAuditRecord(upload_id, admin_id, action, commits) ==
    /\ upload_audits' = IF commits
                        THEN Append(upload_audits,
                                    NewUploadAudit(upload_id, admin_id, action))
                        ELSE upload_audits
    /\ last' = Result("create_audit_record", upload_id, admin_id, commits, action,
                      NoName, 0)
    /\ UNCHANGED <<now, users, upload_batches, questions, displaced, sess>>
    /\ UNCHANGED <<sweep, upload_items, user_data, statVars, system_logs, gw, ai_events>>

\* admin_review_reject: the cursor moves on
AdminReviewReject(admin_id) ==
    /\ user_data' = [user_data EXCEPT ![admin_id].review_index = @ + 1]
    /\ last' = Result("admin_review_reject", 0, admin_id, TRUE, "", NoName, 0)
    /\ UNCHANGED <<now, users, upload_batches, questions, displaced, sess>>
    /\ UNCHANGED <<sweep, upload_items, statVars, auditVars>>

\* --------------------------------------- UploadHandler (upload_question)
\* what the AI service hands to handle_text_upload: no question (or an entry
\* with an error), or one or two extracted questions
ExtractedLists ==
    {<<>>,
     <<Candidate("Q?", FourOptions, "B")>>,
     <<Candidate("Q?", FourOptions, "B"), Candidate("Iron", FourOptions, "A")>>}

\* _request_text_upload: user_data['upload_step'] = 'waiting_for_text'
RequestTextUpload(a) ==
    /\ user_data' = [user_data EXCEPT ![a].upload_step = "waiting_for_text"]
    /\ last' = Result("request_text_upload", 0, a, TRUE, "", NoName, 0)
    /\ UNCHANGED <<now, users, upload_batches, questions, displaced, sess>>
    /\ UNCHANGED <<sweep, upload_items, statVars, auditVars>>

\* handle_text_upload in the step waiting_for_text: the extracted questions
\* are stored unless there are none
HandleTextUpload(a, extracted) ==
    /\ user_data[a].upload_step = "waiting_for_text"
    /\ user_data' = IF extracted = <<>> THEN user_data
                    ELSE [user_data EXCEPT ![a].extracted_questions = extracted,
                                           ![a].upload_step = "questions_extracted"]
    /\ last' = Result("handle_text_upload", 0, a, extracted # <<>>, "", NoName,
                      Len(extracted))
    /\ UNCHANGED <<now, users, upload_batches, questions, displaced, sess>>
    /\ UNCHANGED <<sweep, upload_items, statVars, auditVars>>

\* start_question_review: with questions to review, the cursor and the
\* approved list start again
StartQuestionReview(a) ==
    /\ user_data' = IF user_data[a].extracted_questions = <<>> THEN user_data
                    ELSE [user_data EXCEPT ![a].review_index = 0,
                                           ![a].approved_questions = <<>>,
                                           ![a].upload_step = "reviewing_questions"]
    /\ last' = Result("start_question_review", 0, a,
                      user_data[a].extracted_questions # <<>>, "", NoName, 0)
    /\ UNCHANGED <<now, users, upload_batches, questions, displaced, sess>>
    /\ UNCHANGED <<sweep, upload_items, statVars, auditVars>>

\* the callback data of the review card, less "_question"
ReviewActions == {"approve", "edit", "reject", "skip"}

\* handle_question_review_action: nothing once the cursor has reached the
\* number of questions; approve appends the question to approved_questions,
\* reject and skip do nothing, edit enters the editing step and returns; the
\* cursor moves on after approve, reject and skip
HandleQuestionReviewAction(a, action) ==
    LET ud == user_data[a] IN
    /\ user_data' =
          IF ud.review_index >= Len(ud.extracted_questions) THEN user_data
          ELSE IF action = "edit"
          THEN [user_data EXCEPT ![a].upload_step = "editing_question"]
          ELSE [user_data EXCEPT
                   ![a].approved_questions =
                       IF action = "approve"
                       THEN Append(@, ud.extracted_questions[ud.review_index + 1])
                       ELSE @,
                   ![a].review_index = @ + 1]
    /\ last' = Result("handle_question_review_action", 0, a,
                      ud.review_index < Len(ud.extracted_questions), action, NoName, 0)
    /\ UNCHANGED <<now, users, upload_batches, questions, displaced, sess>>
    /\ UNCHANGED <<sweep, upload_items, statVars, auditVars>>

\* admin_review_edit: user_data["editing"] = True
AdminReviewEdit(admin_id) ==
    /\ user_data' = [user_data EXCEPT ![admin_id].editing = TRUE]
    /\ last' = Result("admin_review_edit", 0, admin_id, TRUE, "", NoName, 0)
    /\ UNCHANGED <<now, users, upload_batches, questions, displaced, sess>>
    /\ UNCHANGED <<sweep, upload_items, statVars, auditVars>>

\* a message text that json.loads rejects
NotJson == [json |-> FALSE, obj |-> Candidate("", <<>>, None)]

\* what a reviewer sends while editing: a text that is not JSON, or the JSON
\* of one question, given as the object json.loads returns for it
EditMessages == {NotJson} \cup {[json |-> TRUE, obj |-> c] : c \in Candidates}

\* obj = json.loads(data); on an exception "Invalid JSON. Try again."
EditAccepted(message) == message.json

\* admin_edit_message_handler
AdminEditMessage(admin_id, message) ==
    LET ud == user_data[admin_id] IN
    /\ UNCHANGED <<now, users, upload_batches, questions, displaced, sess>>
    /\ UNCHANGED <<sweep, upload_items, statVars, auditVars>>
    /\ IF ~ud.editing
       THEN /\ last' = Result("admin_edit_message", 0, admin_id, TRUE, "", NoName, 0)
            /\ UNCHANGED user_data
       ELSE IF ~EditAccepted(message)
       THEN /\ last' = Result("admin_edit_message", 0, admin_id, FALSE,
                              "Invalid JSON. Try again.", NoName, 0)
            /\ UNCHANGED user_data
       ELSE /\ user_data' =
                  [user_data EXCEPT ![admin_id] =
                      [@ EXCEPT !.parsed_mcqs =
                                    IF ud.review_index < Len(ud.parsed_mcqs)
                                    THEN [ud.parsed_mcqs EXCEPT
                                             ![ud.review_index + 1] = message.obj]
                                    ELSE ud.parsed_mcqs,
                                !.editing = FALSE]]
            /\ last' = Result("admin_edit_message", 0, admin_id, TRUE,
                              "Updated. Now confirm or reject.", NoName, 0)

\* ---------------------------------------- AIService.extract_text_from_image
\* the text _fallback_ocr returns
OcrPlaceholder == "OCR service not available. Please provide text input instead."

\* extract_text_from_image(image_data): Gemini when OCR_PROVIDER is gemini and
\* it has a key, else OpenAI when it has a key, else the placeholder; the
\* exception of a provider is logged and raised again
ExtractTextFromImage(ocr_gemini, keys, works, shown) ==
    LET call == Call("extract_text_from_image", None, KeyedProviders(keys), <<>>, <<>>, "")
        name == IF ocr_gemini /\ keys.gemini THEN "gemini"
                ELSE IF keys.openai THEN "openai" ELSE "placeholder" IN
    IF name = "placeholder"
    THEN [call EXCEPT !.result = name, !.lines = <<OcrPlaceholder>>]
    ELSE IF works[name]
    THEN [call EXCEPT !.tried = <<name>>, !.outcomes = <<TRUE>>,
                      !.result = name, !.lines = shown]
    ELSE [call EXCEPT !.tried = <<name>>, !.outcomes = <<FALSE>>, !.result = Raised]

ExtractImage(a, ocr_gemini, keys, works, shown) ==
    /\ gw[a].pc # "retry"
    /\ gw' = [gw EXCEPT ![a] = ExtractTextFromImage(ocr_gemini, keys, works, shown)]
    /\ last' = Result("extract_text_from_image", 0, a,
                      ExtractTextFromImage(ocr_gemini, keys, works, shown).result # Raised,
                      ExtractTextFromImage(ocr_gemini, keys, works, shown).result,
                      NoName, 0)
    /\ UNCHANGED <<now, users, upload_batches, questions, displaced, sess>>
    /\ UNCHANGED <<sweep, upload_items, user_data, statVars, system_logs, upload_audits, ai_events>>

\* --------------------------------------------------------------- log_event
\* the event types of the provider telemetry
AiEvents == {"ai_call", "ai_error"}

\* the attributes of database.models.EventLog
EventLogAttributes ==
    {"id", "timestamp", "user_id", "event_type", "context", "metadata", "registry"}

\* the keyword arguments of EventLog(...) in log_event
LogEventKeywords == {"event_type", "user_id", "context", "metadata", "severity"}

\* EventLog(user_id=..., event_type=..., context=...)
NewEventLog(user_id, event_type) == [user_id |-> user_id, event_type |-> event_type]

\* telemetry.log_event(event_type, user_id): the row is constructed, added and
\* committed inside try/except Exception: pass; the declarative constructor
\* raises TypeError for a keyword that is not an attribute of the class, and
\* commits is FALSE for a commit that raises; the function returns None
LogEvent(event_type, user_id, commits) ==
    /\ ai_events' = IF /\ LogEventKeywords \subseteq EventLogAttributes
                        /\ commits
                        /\ event_type \in AiEvents
                     THEN Append(ai_events, NewEventLog(user_id, event_type))
                     ELSE ai_events
    /\ last' = Result("log_event", 0, user_id, TRUE, event_type, NoName, 0)
    /\ UNCHANGED <<now, users, upload_batches, questions, displaced, sess>>
    /\ UNCHANGED <<sweep, upload_items, user_data, statVars, system_logs, upload_audits, gw>>

\* ------------------------------------------------------------- call_ai
CallAi(a, cfg) ==
    /\ gw[a].pc # "retry"
    /\ gw' = [gw EXCEPT ![a] = CallAiResult(cfg)]
    /\ last' = Result("call_ai", 0, a, CallAiResult(cfg).result # Raised,
                      CallAiResult(cfg).result, NoName, 0)
    /\ UNCHANGED <<now, users, upload_batches, questions, displaced, sess>>
    /\ UNCHANGED <<sweep, upload_items, user_data, statVars, system_logs, upload_audits, ai_events>>

\* --------------------------------------- AIService.parse_questions_from_text
ParseQuestionsFromText(a, cfg, keys, works) ==
    /\ gw[a].pc # "retry"
    /\ gw' = [gw EXCEPT ![a] = ParseQuestionsResult(cfg, keys, works)]
    /\ last' = Result("parse_questions_from_text", 0, a,
                      ParseQuestionsResult(cfg, keys, works).result # Raised,
                      ParseQuestionsResult(cfg, keys, works).result, NoName, 0)
    /\ UNCHANGED <<now, users, upload_batches, questions, displaced, sess>>
    /\ UNCHANGED <<sweep, upload_items, user_data, statVars, system_logs, upload_audits, ai_events>>

\* ------------------------------------- parse_mcqs_with_ai, provider by provider
\* the call up to its first retry_with_backoff: an empty text returns no
\* questions at once; with no key the naive parser answers at once
ParseMcqsStart(a, keys, lines) ==
    /\ gw[a].pc # "retry"
    /\ LET queue == ParseProviders(keys)
           c == [Call("parse_mcqs_with_ai", None, Range(queue), <<>>, <<>>, "")
                    EXCEPT !.lines = lines] IN
       gw' = [gw EXCEPT ![a] =
                 IF lines = <<>> THEN [c EXCEPT !.result = "empty"]
                 ELSE IF queue = <<>>
                 THEN [c EXCEPT !.result = "heuristic", !.questions = NaiveParse(lines)]
                 ELSE [c EXCEPT !.pc = "retry", !.queue = queue]]
    /\ last' = Result("parse_mcqs_start", 0, a, TRUE, "", NoName, 0)
    /\ UNCHANGED <<now, users, upload_batches, questions, displaced, sess>>
    /\ UNCHANGED <<sweep, upload_items, user_data, statVars, system_logs, upload_audits, ai_events>>

\* one iteration of the retry_with_backoff call for the provider at the head
\* of the queue (a new call starts with the iteration that follows the end of
\* the previous one), and what parse_mcqs_with_ai does when the call ends: a
\* returned reply goes to json.loads and is the result; an exception of the
\* call or of json.loads is passed over and the next provider follows, the
\* naive parser after the last one
RetryAttempt(a, outcome, reply) ==
    /\ gw[a].pc = "retry"
    /\ LET c == gw[a]
           name == Head(c.queue)
           r == RetryIteration(IF c.retry = "running" THEN c ELSE FreshRetry(c), outcome)
           tried == IF c.retry = "running" THEN c.tried ELSE Append(c.tried, name)
           t == [r EXCEPT !.tried = tried] IN
       gw' = [gw EXCEPT ![a] =
                 IF t.retry = "running" THEN t
                 ELSE IF outcome = "ok"
                 THEN [t EXCEPT !.pc = "done", !.outcomes = Append(@, TRUE),
                                !.result = name, !.questions = reply.questions]
                 ELSE IF Tail(c.queue) = <<>>
                 THEN [t EXCEPT !.pc = "done", !.outcomes = Append(@, FALSE),
                                !.queue = <<>>, !.result = "heuristic",
                                !.questions = NaiveParse(c.lines)]
                 ELSE [t EXCEPT !.outcomes = Append(@, FALSE), !.queue = Tail(@)]]
    /\ last' = Result("retry_attempt", 0, a, outcome = "ok", outcome, NoName, 0)
    /\ UNCHANGED <<now, users, upload_batches, questions, displaced, sess>>
    /\ UNCHANGED <<sweep, upload_items, user_data, statVars, system_logs, upload_audits, ai_events>>

\* ------------------------------------------------ moderate_question_with_ai
Moderate(a, c, keys, from_openai, from_gemini) ==
    /\ gw[a].pc # "retry"
    /\ gw' = [gw EXCEPT ![a] = ModerateQuestionWithAi(c, keys, from_openai, from_gemini)]
    /\ last' = Result("moderate_question_with_ai", 0, a, TRUE,
                      ModerateQuestionWithAi(c, keys, from_openai, from_gemini).result,
                      NoName, 0)
    /\ UNCHANGED <<now, users, upload_batches, questions, displaced, sess>>
    /\ UNCHANGED <<sweep, upload_items, user_data, statVars, system_logs, upload_audits, ai_events>>

\* ------------------------------------------------------------------- Spec
\* The lock protocol under the minute clock: every operation of
\* MultiAdminService runs to completion before the next one starts.
Next ==
    \/ \E d \in TickSteps : now + d <= MaxTime /\ Tick(d)
    \/ \E u \in Admins : Len(upload_batches) < MaxTimedBatches /\ CreateUploadBatch(u)
    \/ \E b \in BatchIds, a \in Admins : LockBatchForReview(b, a)
    \/ \E b \in BatchIds, a \in Admins : UnlockBatch(b, a)
    \/ \E b \in BatchIds, a \in Admins : ApproveBatch(b, a)
    \/ \E b \in BatchIds, a \in Admins : RejectBatch(b, a)
    \/ CleanupExpiredLocks

Spec == Init /\ [][Next]_vars

\* ------------------------------------------------------------ SpecListing
\* The listing of the batches an admin can review, next to the lock protocol
\* under the minute clock.
NextListing ==
    \/ \E d \in TickSteps : now + d <= MaxTime /\ Tick(d)
    \/ \E u \in Admins : Len(upload_batches) < MaxTimedBatches /\ CreateUploadBatch(u)
    \/ \E b \in BatchIds, a \in Admins : LockBatchForReview(b, a)
    \/ \E b \in BatchIds, a \in Admins : ApproveBatch(b, a)
    \/ \E b \in BatchIds, a \in Admins : RejectBatch(b, a)
    \/ \E a \in Admins : GetAvailableBatchesForAdmin(a)

SpecListing == Init /\ [][NextListing]_vars

\* ------------------------------------------------------------ SpecBatches
\* Several batches and their published questions under the coarse clock.
NextBatches ==
    \/ \E d \in CoarseTickSteps : now + d <= MaxTime /\ Tick(d)
    \/ \E u \in Admins : Len(upload_batches) < MaxBatches /\ CreateUploadBatch(u)
    \/ \E b \in BatchIds, a \in Admins : LockBatchForReview(b, a)
    \/ \E b \in BatchIds, a \in Admins : UnlockBatch(b, a)
    \/ \E b \in BatchIds, a \in Admins : ApproveBatch(b, a)
    \/ \E b \in BatchIds, a \in Admins : RejectBatch(b, a)
    \/ CleanupExpiredLocks
    \/ \E u \in Admins, m \in ModerationActions, b \in BatchIds :
          Len(questions) < MaxQuestions /\ UploadQuestion(u, m, b)

SpecBatches == Init /\ [][NextBatches]_vars

\* --------------------------------------------------------------- SpecConc
\* Calls of lock_batch_for_review by different admins interleave: each call
\* has its own session, reads the batch row and commits later.
NextConc ==
    \/ \E d \in CoarseTickSteps : now + d <= MaxTime /\ Tick(d)
    \/ \E u \in Admins : Len(upload_batches) < MaxBatches /\ CreateUploadBatch(u)
    \/ \E b \in BatchIds, a \in Admins : LockRead(b, a)
    \/ \E a \in Admins : LockCommit(a)

SpecConc == Init /\ [][NextConc]_vars

\* ---------------------------------------------------------- SpecTerminate
\* Calls of approve_batch and reject_batch interleave with lock calls and
\* with the sweep: each call has its own session, checks the holder and
\* commits later.
NextTerminate ==
    \/ \E d \in CoarseTickSteps : now + d <= MaxTime /\ Tick(d)
    \/ \E u \in Admins : Len(upload_batches) < MaxTimedBatches /\ CreateUploadBatch(u)
    \/ \E b \in BatchIds, a \in Admins : LockBatchForReview(b, a)
    \/ \E b \in BatchIds, a \in Admins :
          TerminateRead("approve_batch", "approved", b, a)
    \/ \E b \in BatchIds, a \in Admins :
          TerminateRead("reject_batch", "rejected", b, a)
    \/ \E a \in Admins : TerminateCommit(a)
    \/ CleanupExpiredLocks

SpecTerminate == Init /\ [][NextTerminate]_vars

\* ------------------------------------------------------------- SpecRelock
\* Calls of lock_batch_for_review in two steps next to unlock_batch and the
\* sweep.
NextRelock ==
    \/ \E d \in CoarseTickSteps : now + d <= MaxTime /\ Tick(d)
    \/ \E u \in Admins : Len(upload_batches) < MaxTimedBatches /\ CreateUploadBatch(u)
    \/ \E b \in BatchIds, a \in Admins : LockRead(b, a)
    \/ \E a \in Admins : LockCommit(a)
    \/ \E b \in BatchIds, a \in Admins : UnlockBatch(b, a)
    \/ CleanupExpiredLocks

SpecRelock == Init /\ [][NextRelock]_vars

\* -------------------------------------------------------------- SpecSweep
\* Runs of cleanup_expired_locks interleave with each other and with lock
\* calls: each run has its own session, loads the expired rows and commits
\* later.
NextSweep ==
    \/ \E d \in CoarseTickSteps : now + d <= MaxTime /\ Tick(d)
    \/ \E u \in Admins : Len(upload_batches) < MaxBatches /\ CreateUploadBatch(u)
    \/ \E b \in BatchIds, a \in Admins : LockBatchForReview(b, a)
    \/ \E s \in Sweepers : CleanupRead(s)
    \/ \E s \in Sweepers : CleanupCommit(s)

SpecSweep == Init /\ [][NextSweep]_vars

\* ------------------------------------------------------------- SpecUpload
\* Text uploads and reprocessing next to the lock protocol: the upload
\* handler creates its batch and sets the question count in two sessions,
\* between which other admins act.
NextUpload ==
    \/ \E u \in Admins, n \in 0..MaxParsed :
          Len(upload_batches) < MaxBatches /\ TextUploadCreate(u, n)
    \/ \E u \in Admins : TextUploadCount(u)
    \/ \E b \in BatchIds, a \in Admins : ReprocessUpload(b, a)
    \/ \E b \in BatchIds, a \in Admins : LockBatchForReview(b, a)
    \/ \E b \in BatchIds, a \in Admins : UnlockBatch(b, a)
    \/ \E b \in BatchIds, a \in Admins : ApproveBatch(b, a)
    \/ \E b \in BatchIds, a \in Admins : RejectBatch(b, a)

SpecUpload == Init /\ [][NextUpload]_vars

\* -------------------------------------------------------------- SpecParse
\* Finalized uploads: raw texts and provider replies go through
\* parse_mcqs_with_ai and the result is reviewed.
NextParse ==
    \/ \E a \in Admins, lines \in RawTexts : AdminUploadDone(a, lines, NoReply)
    \/ \E a \in Admins, reply \in Replies : AdminUploadDone(a, <<"Q?">>, reply)
    \/ \E a \in Admins :
          user_data[a].review_index < MaxReviewIndex /\ AdminReviewReject(a)

SpecParse == Init /\ [][NextParse]_vars

\* --------------------------------------------------------------- SpecEdit
\* One upload with a valid candidate under review and the reviewer's edits.
ReviewedUploads ==
    {<<"Q?">>} \X {[ok |-> TRUE, questions |-> <<Candidate("Q?", FourOptions, "B")>>]}

NextEdit ==
    \/ \E a \in Admins, up \in ReviewedUploads : AdminUploadDone(a, up[1], up[2])
    \/ \E a \in Admins : AdminReviewEdit(a)
    \/ \E a \in Admins, message \in EditMessages : AdminEditMessage(a, message)
    \/ \E a \in Admins :
          user_data[a].review_index < MaxReviewIndex /\ AdminReviewReject(a)

SpecEdit == Init /\ [][NextEdit]_vars

\* ------------------------------------------------------------ SpecPublish
\* The two publish paths: the review of an admin upload and the upload
\* handler.
NextPublish ==
    \/ \E u \in Admins : Len(upload_batches) < MaxTimedBatches /\ CreateUploadBatch(u)
    \/ \E u \in Admins, m \in ModerationActions, b \in BatchIds :
          Len(questions) < MaxAttempts /\ UploadQuestion(u, m, b)
    \/ \E a \in Admins, up \in ReviewedUploads : AdminUploadDone(a, up[1], up[2])
    \/ \E a \in Admins, m \in ModerationReplies :
          /\ user_stats[a].upload_count < MaxAttempts
          /\ Len(system_logs) < MaxLogs
          /\ AdminReviewConfirm(a, m, LogsWritten)
    \/ \E a \in Admins :
          user_data[a].review_index < MaxReviewIndex /\ AdminReviewReject(a)

SpecPublish == Init /\ [][NextPublish]_vars

\* ------------------------------------------------------------- SpecReview
\* The review cards of both upload flows: the decisions of a reviewer on the
\* items of an upload.
NextReview ==
    \/ \E a \in Admins : RequestTextUpload(a)
    \/ \E a \in Admins, extracted \in ExtractedLists : HandleTextUpload(a, extracted)
    \/ \E a \in Admins : StartQuestionReview(a)
    \/ \E a \in Admins, action \in ReviewActions :
          /\ Len(user_data[a].approved_questions) < MaxReviewIndex
          /\ HandleQuestionReviewAction(a, action)
    \/ \E a \in Admins, up \in ReviewedUploads : AdminUploadDone(a, up[1], up[2])
    \/ \E a \in Admins :
          user_data[a].review_index < MaxReviewIndex /\ AdminReviewReject(a)

SpecReview == Init /\ [][NextReview]_vars

\* --------------------------------------------------------- SpecVocabulary
\* the action of a moderation result as _upload_questions_to_db reads it: one
\* of the three labels (flag for a result without the key), or what else a
\* provider has put there
ReturnedActions == ModerationActions \cup {"approve"}

\* The upload handler's publish with every action a moderation result can
\* carry.
NextVocabulary ==
    \/ \E u \in Admins : Len(upload_batches) < MaxBatches /\ CreateUploadBatch(u)
    \/ \E u \in Admins, m \in ReturnedActions, b \in BatchIds :
          Len(questions) < MaxAttempts /\ UploadQuestion(u, m, b)

SpecVocabulary == Init /\ [][NextVocabulary]_vars

\* -------------------------------------------------------------- SpecAudit
\* The review of an admin upload with log writes that can fail, and the
\* audit records of MultiAdminService.
NextAudit ==
    \/ \E a \in Admins, up \in ReviewedUploads : AdminUploadDone(a, up[1], up[2])
    \/ \E a \in Admins, m \in ModerationReplies, logs \in LogOutcomes :
          /\ user_stats[a].upload_count < MaxAttempts
          /\ Len(system_logs) < MaxLogs
          /\ AdminReviewConfirm(a, m, logs)
    \/ \E a \in Admins :
          user_data[a].review_index < MaxReviewIndex /\ AdminReviewReject(a)
    \/ \E q \in 1..MaxAttempts, a \in Admins, act \in AuditActions, c \in BOOLEAN :
          Len(upload_audits) < MaxAudits /\ CreateAuditRecord(q, a, act, c)

SpecAudit == Init /\ [][NextAudit]_vars

\* ------------------------------------------------------------ SpecGateway
\* parse_mcqs_with_ai with its retries, one call at a time per caller.
NextRetry ==
    \/ \E a \in Admins, keys \in Keys : ParseMcqsStart(a, keys, <<"Q?">>)
    \/ \E a \in Admins, outcome \in AttemptOutcomes, up \in ReviewedUploads :
          RetryAttempt(a, outcome, up[2])

\* The calls that look up the active provider, one at a time per caller.
NextGateway ==
    \/ \E a \in Admins, cfg \in Configs : CallAi(a, cfg)
    \/ \E a \in Admins, cfg \in Configs, keys \in Keys, works \in Works :
          ParseQuestionsFromText(a, cfg, keys, works)

SpecGateway == Init /\ [][NextGateway]_vars

\* ------------------------------------------------------------ SpecExtract
\* The text extraction of uploaded images and documents, with no provider
\* for the parse that follows.
NextExtract ==
    \/ \E a \in Admins, p \in Payloads, g \in BOOLEAN, v \in VisionOutcomes :
          AdminUploadDoneFile(a, p, g, v, NoReply)
    \/ \E a \in Admins, o \in BOOLEAN, keys \in Keys, works \in Works, p \in Payloads :
          ExtractImage(a, o, keys, works, p.shown)

SpecExtract == Init /\ [][NextExtract]_vars

\* ---------------------------------------------------------- SpecTelemetry
\* The gateway calls and the telemetry writer.
NextTelemetry ==
    \/ NextGateway
    \/ \E a \in Admins, e \in AiEvents, commits \in BOOLEAN : LogEvent(e, a, commits)

SpecTelemetry == Init /\ [][NextTelemetry]_vars

\* a retry_with_backoff call in progress goes on: the provider call returns or
\* raises, the sleep ends
SpecRetryFair ==
    /\ Init
    /\ [][NextRetry]_vars
    /\ \A a \in Admins :
          WF_vars(\E outcome \in AttemptOutcomes, up \in ReviewedUploads :
                     RetryAttempt(a, outcome, up[2]))

\* -------------------------------------------------------------- SpecNaive
\* parse_mcqs_with_ai without a provider key: the naive parser on every text.
NoKeys == [gemini |-> FALSE, openai |-> FALSE]

NextNaive ==
    \E a \in Admins, lines \in RawTexts : ParseMcqsStart(a, NoKeys, lines)

SpecNaive == Init /\ [][NextNaive]_vars

\* --------------------------------------------------------- SpecModeration
\* moderate_question_with_ai: every question with the heuristic, one question
\* with every answer of the providers.
NextModeration ==
    \/ \E a \in Admins, c \in ModeratedCandidates :
          Moderate(a, c, NoKeys, FailedModeration, FailedModeration)
    \/ \E a \in Admins, keys \in Keys, o, g \in ModerationAnswers :
          Moderate(a, Candidate("Q?", FourOptions, "B"), keys, o, g)

SpecModeration == Init /\ [][NextModeration]_vars

\* ----------------------------------------------------------- SpecCounters
\* Publish calls for the same users interleave: each call of
\* _insert_question_with_moderation loads the user row and commits later.
NextCounters ==
    \/ \E u \in Admins : Len(upload_batches) < MaxTimedBatches /\ CreateUploadBatch(u)
    \/ \E u \in Admins, m \in ModerationActions, b \in BatchIds :
          Len(questions) < MaxAttempts /\ UploadQuestion(u, m, b)
    \/ \E w \in Workers, a \in Admins, m \in ModerationReplies :
          user_stats[a].upload_count < MaxAttempts /\ InsertRead(w, a, m)
    \/ \E w \in Workers : InsertCommit(w)

SpecCounters == Init /\ [][NextCounters]_vars

\* -------------------------------------------------------------- SpecQueue
\* Uploads of both flows followed by the super admin's decisions in the
\* moderation queue; a button of a card can be pressed again.  One review
\* commit is in flight at a time.
QuestionIds == 1..MaxQuestions

NextQueue ==
    \/ \E u \in Admins : Len(upload_batches) < MaxTimedBatches /\ CreateUploadBatch(u)
    \/ \E u \in Admins, m \in ModerationActions, b \in BatchIds :
          Len(questions) < MaxQuestions /\ UploadQuestion(u, m, b)
    \/ \E w \in Workers, a \in Admins, m \in ModerationReplies :
          /\ \A v \in Workers : pub[v].pc = "idle"
          /\ user_stats[a].upload_count < MaxAttempts
          /\ InsertRead(w, a, m)
    \/ \E w \in Workers : InsertCommit(w)
    \/ \E a \in Admins, q \in QuestionIds :
          /\ \A u \in Admins : user_stats[u].approved_count < MaxAttempts
          /\ ModerationApproveCallback(a, q)
    \/ \E a \in Admins, q \in QuestionIds :
          /\ \A u \in Admins : user_stats[u].rejected_count < MaxAttempts
          /\ ModerationRejectCallback(a, q)

SpecQueue == Init /\ [][NextQueue]_vars

TypeOK ==
    /\ now \in 0..MaxTime
    /\ Len(upload_batches) <= MaxBatches
    /\ Len(questions) <= IF MaxQuestions > MaxAttempts THEN MaxQuestions
                          ELSE MaxAttempts

\* ------------------------------------------------------------- properties
\* the step is a call op(batch_id, admin_id) that has returned
Called(op, batch_id, admin_id) ==
    /\ last'.op = op
    /\ last'.batch_id = batch_id
    /\ last'.admin_id = admin_id

\* minutes since the lock of the row was acquired
Elapsed(row) == now - row.locked_at

HeldByOther(b, y) ==
    /\ Exists(b)
    /\ upload_batches[b].locked_by \in Admins \ {y}
    /\ upload_batches[b].locked_at # NULL

\* C1: while another admin X holds the lock of B and less than the lock
\* timeout has elapsed, lock_batch_for_review(B, Y) fails, its message names
\* X, and the batch is left as it was.
C1_LockExclusivity ==
    [][\A b \in BatchIds, y \in Admins :
          (/\ HeldByOther(b, y)
           /\ Elapsed(upload_batches[b]) < lock_timeout_minutes
           /\ Called("lock_batch_for_review", b, y))
          => (/\ ~last'.success
              /\ last'.name \in NamesOf(upload_batches[b].locked_by)
              /\ upload_batches' = upload_batches)]_vars

\* a refused lock call, minutes after the holder acquired the lock
C1_Witness ==
    /\ last.op = "lock_batch_for_review"
    /\ ~last.success
    /\ HeldByOther(last.batch_id, last.admin_id)
    /\ last.name \in NamesOf(upload_batches[last.batch_id].locked_by)
    /\ Elapsed(upload_batches[last.batch_id]) > 0

\* C2: a call of lock_batch_for_review returns success only when no other
\* admin holds an unexpired lock on the batch at that moment, so two
\* interleaved calls are never both told that they hold the lock.
C2_MutualExclusion ==
    [][\A b \in BatchIds, y \in Admins :
          (/\ Called("lock_batch_for_review", b, y)
           /\ last'.success)
          => ~(/\ HeldByOther(b, y)
               /\ Elapsed(upload_batches[b]) < lock_timeout_minutes)]_vars

\* C3: once the lock timeout has elapsed on X's lock, lock_batch_for_review(B, Y)
\* succeeds without a sweep or an unlock, and the batch is then locked by Y
\* since now, in review.
C3_LockExpiry ==
    [][\A b \in BatchIds, y \in Admins :
          (/\ HeldByOther(b, y)
           /\ Elapsed(upload_batches[b]) >= lock_timeout_minutes
           /\ Called("lock_batch_for_review", b, y))
          => (/\ last'.success
              /\ upload_batches'[b].locked_by = y
              /\ upload_batches'[b].locked_at = now
              /\ upload_batches'[b].status = "review")]_vars

\* a lock taken over from another admin
C3_Witness ==
    /\ last.op = "lock_batch_for_review"
    /\ last.success
    /\ last.holder \in Admins \ {last.admin_id}
    /\ upload_batches[last.batch_id].locked_by = last.admin_id
    /\ upload_batches[last.batch_id].locked_at = now

\* C4: after B has taken over A's expired lock, approve_batch and reject_batch
\* by A fail and change neither the batch (B still holds it, in review) nor
\* any question.
C4_StaleLockTakeover ==
    [][\A b \in BatchIds, a \in Admins :
          (/\ Exists(b)
           /\ displaced[b] = a
           /\ upload_batches[b].locked_by \in Admins \ {a}
           /\ (Called("approve_batch", b, a) \/ Called("reject_batch", b, a)))
          => (/\ ~last'.success
              /\ upload_batches' = upload_batches
              /\ upload_batches'[b].status = "review"
              /\ questions' = questions)]_vars

\* the displaced admin's approve call has been refused
C4_Witness ==
    /\ last.op = "approve_batch"
    /\ ~last.success
    /\ Exists(last.batch_id)
    /\ displaced[last.batch_id] = last.admin_id
    /\ upload_batches[last.batch_id].locked_by \in Admins \ {last.admin_id}
    /\ questions # <<>>

\* C5: approve_batch and reject_batch by an admin who is not the lock holder
\* (another admin holds it, nobody does, or the batch does not exist) fail
\* and change no batch and no question.
C5_OnlyLockHolder ==
    [][\A b \in BatchIds, a \in Admins :
          (/\ (~Exists(b) \/ upload_batches[b].locked_by # a)
           /\ (Called("approve_batch", b, a) \/ Called("reject_batch", b, a)))
          => (/\ ~last'.success
              /\ upload_batches' = upload_batches
              /\ questions' = questions)]_vars

\* a refused reject call on an unlocked batch of an uploader with a question
C5_Witness ==
    /\ last.op = "reject_batch"
    /\ ~last.success
    /\ Exists(last.batch_id)
    /\ upload_batches[last.batch_id].locked_by = NULL
    /\ \E i \in DOMAIN questions : questions[i].from_batch = last.batch_id

\* C6: a batch that is approved (rejected) has no lock and every question
\* published from it is active (inactive).
C6_TerminalConsistent ==
    \A b \in DOMAIN upload_batches :
        upload_batches[b].status \in {"approved", "rejected"}
        => (/\ upload_batches[b].locked_by = NULL
            /\ upload_batches[b].locked_at = NULL
            /\ \A i \in DOMAIN questions :
                  questions[i].from_batch = b
                  => questions[i].is_active = (upload_batches[b].status = "approved"))

\* C7: a batch whose lock holder is set has status review.
C7_LockedImpliesReview ==
    \A b \in DOMAIN upload_batches :
        upload_batches[b].locked_by # NULL => upload_batches[b].status = "review"

\* a batch locked again after it had reached a terminal status
C7_Witness ==
    \E b \in DOMAIN upload_batches :
        /\ upload_batches[b].locked_by # NULL
        /\ upload_batches[b].completed_at # NULL

\* C8: a batch is created in draft, its status only moves draft->review,
\* review->draft, review->approved and review->rejected, and an approved or
\* rejected batch keeps its status and gets no lock holder again.
StatusMoves ==
    {<<"draft", "review">>, <<"review", "draft">>,
     <<"review", "approved">>, <<"review", "rejected">>}

C8_StatusTransitions ==
    [][\A b \in DOMAIN upload_batches' :
          IF b \notin DOMAIN upload_batches
          THEN upload_batches'[b].status = "draft"
          ELSE /\ \/ upload_batches'[b].status = upload_batches[b].status
                  \/ <<upload_batches[b].status, upload_batches'[b].status>> \in StatusMoves
               /\ upload_batches[b].status \in {"approved", "rejected"}
                  => upload_batches'[b].locked_by = NULL]_vars

\* C9: unlock_batch reports no error; called by the lock holder it clears the
\* lock fields and sets draft, called by anyone else it changes nothing.
C9_Unlock ==
    [][\A b \in BatchIds, x \in Admins :
          Called("unlock_batch", b, x)
          => (/\ last'.success
              /\ IF Exists(b) /\ upload_batches[b].locked_by = x
                 THEN upload_batches' =
                         [upload_batches EXCEPT ![b] =
                             [@ EXCEPT !.locked_by = NULL, !.locked_at = NULL,
                                       !.status = "draft"]]
                 ELSE upload_batches' = upload_batches)]_vars

\* unlock_batch called on a batch that another admin holds
C9_Witness ==
    /\ last.op = "unlock_batch"
    /\ HeldByOther(last.batch_id, last.admin_id)

\* C10: lock_batch_for_review by the admin who already holds the lock
\* succeeds and leaves lock holder and status as they were, and every other
\* batch untouched.
C10_RelockIdempotent ==
    [][\A b \in BatchIds, a \in Admins :
          (/\ Exists(b)
           /\ upload_batches[b].locked_by = a
           /\ Called("lock_batch_for_review", b, a))
          => (/\ last'.success
              /\ upload_batches'[b].locked_by = a
              /\ upload_batches'[b].status = upload_batches[b].status
              /\ upload_batches'[b].status = "review"
              /\ \A c \in DOMAIN upload_batches \ {b} :
                    upload_batches'[c] = upload_batches[c])]_vars

\* the holder has locked its own batch again
C10_Witness ==
    /\ last.op = "lock_batch_for_review"
    /\ last.success
    /\ last.holder = last.admin_id
    /\ upload_batches[last.batch_id].locked_by = last.admin_id

\* the batches in review whose lock is at least one lock timeout old
ExpiredLocks ==
    {b \in DOMAIN upload_batches :
        /\ upload_batches[b].status = "review"
        /\ upload_batches[b].locked_at # NULL
        /\ Elapsed(upload_batches[b]) >= lock_timeout_minutes}

\* C11: cleanup_expired_locks unlocks exactly the batches in review whose lock
\* is at least the lock timeout old (lock fields cleared, status draft),
\* leaves every other batch as it was and returns how many it unlocked; a
\* sweep that directly follows a sweep returns 0 and changes nothing.
C11_ExpirySweep ==
    [][Called("cleanup_expired_locks", 0, 0)
       => (/\ upload_batches' =
                 [b \in DOMAIN upload_batches |->
                     IF b \in ExpiredLocks
                     THEN [upload_batches[b] EXCEPT !.locked_by = NULL,
                                                    !.locked_at = NULL,
                                                    !.status = "draft"]
                     ELSE upload_batches[b]]
           /\ last'.count = Cardinality(ExpiredLocks)
           /\ last.op = "cleanup_expired_locks"
              => (last'.count = 0 /\ upload_batches' = upload_batches))]_vars

\* C12: two interleaved runs of cleanup_expired_locks, with no lock acquired
\* between a run's read and its commit, leave the batches as a single sweep
\* does (every loaded batch unlocked, in draft) and each run returns the
\* number of locks it released itself, so that the counts of the two runs add
\* up to the number of locks that had expired.
C12_ConcurrentSweep ==
    [][\A s \in Sweepers :
          (/\ Called("cleanup_expired_locks", 0, s)
           /\ \A b \in DOMAIN sweep[s].view :
                 upload_batches[b] \in {sweep[s].view[b], UnlockAssign(sweep[s].view[b])})
          => (/\ \A b \in DOMAIN sweep[s].view :
                    upload_batches'[b] = UnlockAssign(sweep[s].view[b])
              /\ \A b \in DOMAIN upload_batches \ DOMAIN sweep[s].view :
                    upload_batches'[b] = upload_batches[b]
              /\ last'.count =
                    Cardinality({b \in DOMAIN sweep[s].view :
                                    upload_batches[b].locked_by # NULL}))]_vars

C14_MutationNeedsLock ==
    [][\A b \in DOMAIN upload_batches, a \in Admins :
          (/\ upload_batches[b].status = "review"
           /\ upload_batches[b].locked_by # a
           /\ last'.admin_id = a
           /\ last'.op \in {"process_text_upload", "reprocess_upload", "unlock_batch",
                            "approve_batch", "reject_batch", "lock_batch_for_review"})
          => (/\ upload_batches'[b] = upload_batches[b]
              /\ upload_items' = upload_items)]_vars

\* C15: every candidate the extractor hands to the review is valid, and the
\* correct option computed for it is a letter its answer resolves to, never a
\* default.
C15_CandidateValidation ==
    \A a \in Admins :
        \A i \in DOMAIN user_data[a].parsed_mcqs :
            LET c == user_data[a].parsed_mcqs[i] IN
            /\ Valid(c)
            /\ MapCorrectOption(c.correct_answer, c.options) \in ResolvedLetters(c)

\* C16: a reviewer's edit replaces the candidate under the cursor only by a
\* valid one; a refused edit is reported and leaves the stored candidates and
\* the cursor as they were.
C16_EditValidated ==
    [][\A a \in Admins :
          Called("admin_edit_message", 0, a)
          => (/\ \A i \in DOMAIN user_data'[a].parsed_mcqs :
                    \/ /\ i \in DOMAIN user_data[a].parsed_mcqs
                       /\ user_data'[a].parsed_mcqs[i] = user_data[a].parsed_mcqs[i]
                    \/ Valid(user_data'[a].parsed_mcqs[i])
              /\ ~last'.success
                 => (/\ user_data'[a].parsed_mcqs = user_data[a].parsed_mcqs
                     /\ user_data'[a].review_index = user_data[a].review_index))]_vars

\* the step is a publish attempt with moderation action m
Published(m) ==
    /\ last'.op \in {"upload_question", "admin_review_confirm"}
    /\ last'.message = m

NewQuestions == {i \in DOMAIN questions' : i \notin DOMAIN questions}

\* C17: a publish with action accept adds a Question that is active and not
\* in need of review, with flag one that needs review and is not active, with
\* reject no active Question; no question that needs review is active.
C17_ModerationMapping ==
    [][/\ Published("accept")
          => \E i \in NewQuestions :
                questions'[i].is_active /\ ~questions'[i].needs_review
       /\ Published("flag")
          => \E i \in NewQuestions :
                questions'[i].needs_review /\ ~questions'[i].is_active
       /\ Published("reject")
          => \A i \in NewQuestions : ~questions'[i].is_active
       /\ \A i \in DOMAIN questions' :
             questions'[i].needs_review => ~questions'[i].is_active]_vars

\* C18: a publish attempt for an uploader raises exactly the counter of its
\* moderation action by one and leaves the other two as they were.
C18_CounterPerAction ==
    [][\A u \in Admins :
          (last'.admin_id = u /\ \E m \in ModerationActions : Published(m))
          => (/\ user_stats'[u].approved_count = user_stats[u].approved_count
                    + (IF Published("accept") THEN 1 ELSE 0)
              /\ user_stats'[u].flagged_count = user_stats[u].flagged_count
                    + (IF Published("flag") THEN 1 ELSE 0)
              /\ user_stats'[u].rejected_count = user_stats[u].rejected_count
                    + (IF Published("reject") THEN 1 ELSE 0))]_vars

\* C19: when no publish call is in progress, an uploader's approved_count is
\* the number of accepted publishes committed for them and the average
\* moderation score is the mean of their scores.
C19_NoLostUpdate ==
    (\A w \in Workers : pub[w].pc = "idle")
    => \A u \in Admins :
          /\ user_stats[u].approved_count = recorded[u].n
          /\ recorded[u].n > 0
             => user_stats[u].average_moderation_score
                   = Round(recorded[u].sum, recorded[u].n)

\* C20: a confirm with action accept or flag persists the Question and the
\* counter change together or not at all; when nothing is persisted an error
\* is reported, the item is not reported as uploaded and the cursor stays.
C20_CommitAtomic ==
    [][\A a \in Admins :
          (/\ Called("admin_review_confirm", 0, a)
           /\ last'.message \in {"accept", "flag"})
          => (/\ (NewQuestions # {}) <=> (user_stats'[a] # user_stats[a])
              /\ NewQuestions = {}
                 => (/\ ~last'.success
                     /\ last'.count = 0
                     /\ user_data'[a].review_index = user_data[a].review_index))]_vars

\* the step appends a "moderation_confirm" row to system_logs
ConfirmLogged ==
    /\ Len(system_logs') = Len(system_logs) + 1
    /\ system_logs'[Len(system_logs')].action = "moderation_confirm"

\* C21: when the insert of a confirm has committed (a Question row or a
\* counter change) and the log write after it fails, the reviewer is still
\* told that the item was uploaded and is told of no error.
C21_AuditFailureKeepsPublish ==
    [][\A a \in Admins :
          (/\ Called("admin_review_confirm", 0, a)
           /\ last'.message \in ModerationActions
           /\ (NewQuestions # {} \/ user_stats'[a] # user_stats[a])
           /\ ~ConfirmLogged)
          => (last'.success /\ last'.count = 1)]_vars

\* the step is a decision of reviewer a on the item under the cursor
Decided(a) ==
    /\ user_data[a].review_index < Len(user_data[a].parsed_mcqs)
    /\ \/ Called("admin_review_reject", 0, a)
       \/ /\ Called("admin_review_confirm", 0, a)
          /\ last'.message \in ModerationActions
          /\ last'.count = 1
       \/ /\ Called("admin_edit_message", 0, a)
          /\ last'.message = "Updated. Now confirm or reject."

\* C22: every decision of a reviewer appends exactly one audit record, which
\* carries the reviewer; and the rows of the log tables are never changed or
\* removed.
C22_AuditTrailComplete ==
    [][/\ \A a \in Admins :
             Decided(a)
             => /\ Len(system_logs') + Len(upload_audits')
                      = Len(system_logs) + Len(upload_audits) + 1
                /\ \/ /\ Len(system_logs') = Len(system_logs) + 1
                      /\ system_logs'[Len(system_logs')].user_id = a
                   \/ /\ Len(upload_audits') = Len(upload_audits) + 1
                      /\ upload_audits'[Len(upload_audits')].admin_id = a
       /\ Len(system_logs') >= Len(system_logs)
       /\ SubSeq(system_logs', 1, Len(system_logs)) = system_logs
       /\ Len(upload_audits') >= Len(upload_audits)
       /\ SubSeq(upload_audits', 1, Len(upload_audits)) = upload_audits]_vars

\* the calls that look up the active provider and have returned or raised
GatewayCalls ==
    {a \in Admins : /\ gw[a].pc = "done"
                    /\ gw[a].fn \in {"call_ai", "parse_questions_from_text"}}

\* C23: a gateway call attempts the active provider first, no provider twice,
\* tags its result with the first provider whose attempt succeeded, and does
\* not fail while a provider it could use is untried.
C23_FallbackOrder ==
    \A a \in GatewayCalls :
        LET c == gw[a] IN
        /\ \A i, j \in DOMAIN c.tried : i # j => c.tried[i] # c.tried[j]
        /\ (c.active \in c.configured /\ c.tried # <<>>) => c.tried[1] = c.active
        /\ c.result \in ProviderNames
           => \E i \in DOMAIN c.tried :
                 /\ c.tried[i] = c.result
                 /\ c.outcomes[i]
                 /\ \A j \in 1..(i - 1) : ~c.outcomes[j]
        /\ (c.active # None /\ c.result \notin ProviderNames)
           => c.configured \subseteq Range(c.tried)

\* C24: a gateway call never raises to its caller; when no provider has
\* succeeded its value is {provider: "none"} or the heuristic's.
C24_UniformFailure ==
    \A a \in GatewayCalls :
        /\ gw[a].result # Raised
        /\ (\A i \in DOMAIN gw[a].outcomes : ~gw[a].outcomes[i])
           => gw[a].result \in {"none", "heuristic"}

\* the retry_with_backoff calls made so far by parse_mcqs_with_ai
RetryCalls == {a \in Admins : gw[a].fn = "parse_mcqs_with_ai" /\ gw[a].retry # "none"}

RetryWithinBounds ==
    \A a \in RetryCalls :
        LET c == gw[a] IN
        /\ c.calls <= attempts
        /\ c.slept = [k \in 1..Len(c.slept) |-> base_delay * (2 ^ (k - 1))]
        /\ c.retry = "running"
           => (c.calls = c.i /\ Len(c.slept) = c.calls /\ c.calls < attempts)
        /\ c.retry = "returned" => Len(c.slept) = c.calls - 1
        /\ c.retry = "raised"
           => (c.calls = attempts /\ Len(c.slept) = attempts - 1)
        /\ (c.pc = "done" /\ c.result \in KnownProviders)
           => (c.retry = "returned" /\ c.outcomes[Len(c.outcomes)])
        /\ (c.pc = "retry" /\ c.retry = "raised") => c.queue # <<>>
        /\ (c.pc = "done" /\ c.retry = "raised") => c.result = "heuristic"

\* C26: retry_with_backoff calls the provider at most `attempts` times, ends
\* at the first return, sleeps base_delay * 2^i after the i-th failure but not
\* after the last, raises after the last failure so that the next provider (or
\* the naive parser) follows, and every call in progress comes to its end.
C26_RetryWithBackoff ==
    /\ []RetryWithinBounds
    /\ \A a \in Admins : (gw[a].pc = "retry") ~> (gw[a].pc = "done")

\* three failures of one provider: two sleeps of 1 and 2 seconds, then the raise
C26_Witness ==
    \E a \in RetryCalls :
        /\ gw[a].retry = "raised"
        /\ gw[a].calls = attempts
        /\ gw[a].slept = <<base_delay, 2 * base_delay>>

\* the finished calls of moderate_question_with_ai
Moderations == {a \in Admins : gw[a].fn = "moderate_question_with_ai" /\ gw[a].pc = "done"}

\* C25: every result moderate_question_with_ai returns has a moderation_score
\* within 0..100 and an action that is accept, flag or reject.
C25_ModerationResultWellFormed ==
    \A a \in Moderations :
        /\ gw[a].value.moderation_score \in 0..100
        /\ gw[a].value.action \in ModerationActions

\* C28: when no provider answers, the heuristic gives score 75 and accept
\* exactly when the question ends with "?" and has exactly four options, and
\* score 50 and flag otherwise, a question with more than four options included.
C28_HeuristicExactlyFourOptions ==
    \A a \in Moderations :
        gw[a].result = "heuristic" =>
            LET c == gw[a].questions[1] IN
            IF EndsWithQuestionMark(Strip(c.question)) /\ Len(c.options) = 4
            THEN gw[a].value = [action |-> "accept", moderation_score |-> 75]
            ELSE gw[a].value = [action |-> "flag", moderation_score |-> 50]

\* the finished calls of parse_mcqs_with_ai that the naive parser answered
NaiveParses ==
    {a \in Admins : /\ gw[a].fn = "parse_mcqs_with_ai"
                    /\ gw[a].pc = "done"
                    /\ gw[a].result = "heuristic"}

\* the positions of the lines that end with "?"
Stems(lines) == {k \in 1..Len(lines) : EndsWithQuestionMark(lines[k])}

\* C29: the naive parser takes the first non-empty line ending with "?" as
\* the stem and the four non-empty lines that follow it as the options, never
\* a line before the stem; it infers no answer, and it returns a candidate
\* only when the stem and four following lines exist.
C29_NaiveParseAfterStem ==
    \A a \in NaiveParses :
        LET lines == gw[a].lines
            k == CHOOSE x \in Stems(lines) : \A y \in Stems(lines) : x <= y IN
        IF Stems(lines) # {} /\ Len(lines) >= k + 4
        THEN gw[a].questions = <<Candidate(lines[k], SubSeq(lines, k + 1, k + 4), None)>>
        ELSE gw[a].questions = <<>>

\* a review decision of admin a in this step
ReviewDecision(a) ==
    /\ last'.op \in {"admin_review_confirm", "admin_review_reject"}
    /\ last'.admin_id = a

\* C30: the review cursor stays within 0..number of items; a decision taken
\* while the cursor is below the number of items advances it by exactly one,
\* and a decision taken when it equals the number of items changes nothing.
C30_CursorWithinItems ==
    [][\A a \in Admins :
          /\ user_data'[a].review_index \in 0..Len(user_data'[a].parsed_mcqs)
          /\ ReviewDecision(a) =>
                IF user_data[a].review_index < Len(user_data[a].parsed_mcqs)
                THEN user_data'[a] =
                         [user_data[a] EXCEPT !.review_index = @ + 1]
                ELSE user_data'[a] = user_data[a]]_vars

\* C27: an accepted publish with score s sets the uploader's average to
\* round((prev_avg * prev_n + s) / (prev_n + 1)), prev_n being approved_count
\* before the increment and prev_avg the stored average (0 when there is
\* none); a flagged or rejected publish leaves the average as it was.
C27_RollingAverage ==
    [][\A u \in Admins :
          LET s == recorded'[u].sum - recorded[u].sum
              prev_n == user_stats[u].approved_count
              prev_avg == IF user_stats[u].average_moderation_score = NULL THEN 0
                          ELSE user_stats[u].average_moderation_score IN
          /\ recorded'[u].n = recorded[u].n + 1
             => user_stats'[u].average_moderation_score
                   = Round(prev_avg * prev_n + s, prev_n + 1)
          /\ (last'.admin_id = u /\ (Published("flag") \/ Published("reject")))
             => user_stats'[u].average_moderation_score
                   = user_stats[u].average_moderation_score]_vars

\* a decision d of reviewer a on the item under the cursor, in either flow
Decides(a, d) ==
    /\ last'.admin_id = a
    /\ \/ /\ last'.op = "handle_question_review_action"
          /\ last'.message = d
          /\ user_data[a].review_index < Len(user_data[a].extracted_questions)
       \/ /\ last'.op = "admin_review_reject"
          /\ d = "reject"
          /\ user_data[a].review_index < Len(user_data[a].parsed_mcqs)

\* C31: a reject of the item under the cursor creates no Question and adds
\* one to the uploader's rejected_count; a skip changes no counter, no
\* Question and no audit record; both advance the cursor by one.
C31_RejectPenalizesSkipNeutral ==
    [][\A a \in Admins :
          /\ Decides(a, "reject")
             => /\ questions' = questions
                /\ user_stats'[a] = [user_stats[a] EXCEPT !.rejected_count = @ + 1]
                /\ user_data'[a].review_index = user_data[a].review_index + 1
          /\ Decides(a, "skip")
             => /\ questions' = questions
                /\ user_stats' = user_stats
                /\ system_logs' = system_logs
                /\ upload_audits' = upload_audits
                /\ user_data'[a].review_index = user_data[a].review_index + 1]_vars

\* C32: a publish whose moderation action is none of accept, flag and reject
\* is not handled as one of them: it adds no active Question and increments
\* no approved counter.
C32_ClosedVocabulary ==
    [][(last'.op = "upload_question" /\ last'.message \notin ModerationActions)
          => /\ \A i \in NewQuestions : ~questions'[i].is_active
             /\ \A u \in Admins :
                   user_stats'[u].approved_count = user_stats[u].approved_count]_vars

\* C33: every gateway call appends exactly one event, ai_call when the call
\* returned a provider's value and ai_error when it failed; and a telemetry
\* write, failed or not, leaves the state of the calls as it was.
C33_OneEventPerCall ==
    [][/\ \A a \in Admins :
             (last'.admin_id = a /\ last'.op \in {"call_ai", "parse_questions_from_text"})
             => /\ Len(ai_events') = Len(ai_events) + 1
                /\ ai_events'[Len(ai_events')].event_type =
                      IF gw'[a].result \in KnownProviders THEN "ai_call" ELSE "ai_error"
       /\ last'.op = "log_event" => gw' = gw]_vars

\* C34: when the text extraction of an uploaded image or document fails
\* (the provider raises, or none is configured) the upload yields no
\* candidate; and the extractor raises no exception to its caller.
C34_ExtractionFailureYieldsNothing ==
    [][\A a \in Admins :
          last'.admin_id = a
          => /\ (last'.op = "admin_upload_done_file" /\ last'.message = "not extracted")
                => user_data'[a].parsed_mcqs = <<>>
             /\ last'.op = "extract_text_from_image" => gw'[a].result # Raised]_vars

\* C35: the commit of a sweep leaves every lock that is younger than the
\* timeout at that moment as it is: holder, time of acquisition and status.
C35_SweepSparesFreshLock ==
    [][\A s \in Sweepers :
          Called("cleanup_expired_locks", 0, s)
          => \A b \in DOMAIN upload_batches :
                (/\ upload_batches[b].locked_by # NULL
                 /\ upload_batches[b].locked_at # NULL
                 /\ Elapsed(upload_batches[b]) < lock_timeout_minutes)
                => /\ upload_batches'[b].locked_by = upload_batches[b].locked_by
                   /\ upload_batches'[b].locked_at = upload_batches[b].locked_at
                   /\ upload_batches'[b].status = upload_batches[b].status]_vars

\* C36: the commit of approve_batch or reject_batch by an admin who is no
\* longer the lock-holder at that moment leaves the batch as it is: it is not
\* moved to approved or rejected and the lock of the new holder stays.
C36_TerminalNeedsHolderAtCommit ==
    [][\A a \in Admins, b \in DOMAIN upload_batches :
          (/\ \/ Called("approve_batch", b, a)
              \/ Called("reject_batch", b, a)
           /\ last'.success
           /\ upload_batches[b].locked_by # a)
          => upload_batches'[b] = upload_batches[b]]_vars

\* C37: approve_batch(B) and reject_batch(B) change the flags of the
\* questions published from batch B only: every question of another batch
\* keeps is_active and needs_review.
C37_OnlyOwnBatchQuestions ==
    [][\A b \in DOMAIN upload_batches :
          (/\ last'.op \in {"approve_batch", "reject_batch"}
           /\ last'.batch_id = b
           /\ last'.success)
          => \A i \in DOMAIN questions :
                questions[i].from_batch # b => questions'[i] = questions[i]]_vars

\* C38: when admin y lists the available batches, a batch in draft or review
\* is listed exactly when lock_batch_for_review(batch, y) would succeed at
\* that moment, and no approved or rejected batch is listed.
C38_ListingAgreesWithLocking ==
    [][\A y \in Admins :
          Called("get_available_batches_for_admin", 0, y)
          => \A b \in DOMAIN upload_batches :
                IF upload_batches[b].status \in {"draft", "review"}
                THEN (b \in AvailableBatches(y))
                        <=> ~LockRefused(upload_batches[b], y, now)
                ELSE b \notin AvailableBatches(y)]_vars

\* C39: in every reachable state the lock-holder and the time of acquisition
\* of a batch are both null or both set, and the batch has status review
\* exactly when its lock-holder is set.
C39_LockFieldsConsistent ==
    \A b \in DOMAIN upload_batches :
        /\ (upload_batches[b].locked_by = NULL) <=> (upload_batches[b].locked_at = NULL)
        /\ (upload_batches[b].status = "review") <=> (upload_batches[b].locked_by # NULL)


\* C40: for every uploader, upload_count = approved_count + flagged_count +
\* rejected_count after any sequence of uploads, moderated review commits and
\* super admin decisions in the moderation queue: every uploaded question is
\* counted in exactly one bucket.  Checked in SpecQueue.
C40_CountersPartitionUploads ==
    \A u \in Admins :
        user_stats[u].upload_count =
            user_stats[u].approved_count + user_stats[u].flagged_count
            + user_stats[u].rejected_count

====
